---- MODULE Spec2Model ----
(***************************************************************************)
(* A model of rail_plotting's declarative registries:                      *)
(*   PlotterFactory      (src/rail/plotting/plotter_factory.py)            *)
(*   RailDatasetFactory  (src/rail/plotting/dataset_factory.py)            *)
(*   RailPlotter's class registry and constructor (plotter.py)             *)
(* Python dicts are insertion ordered: a dict is a sequence of [k, v]      *)
(* records.  An exception is a record [type, msg, key, known]; msg names   *)
(* the f-string of the raise statement, key and known its interpolations.  *)
(***************************************************************************)
EXTENDS Integers, Sequences, FiniteSets, TLC

\* Number of yaml blocks the process reads, over all its loads.
MaxBlocks == 4

VARIABLES
    plotterFactory,   \* PlotterFactory._instance
    datasetFactory,   \* RailDatasetFactory._instance
    plotter_classes,  \* RailPlotter.plotter_classes
    extractor_classes,\* RailProjectDataExtractor's class registry
    pc,               \* "idle", or which load_instance_yaml loop is running
    pos,              \* blocks of the source the running/last load has consumed
    read,             \* blocks read so far, over all loads
    made,             \* constructor calls so far, per factory class
    err,              \* exception the last call raised (NoErr when it returned)
    ret,              \* what the last accessor returned
    base,             \* the maps of the loaded registry when the load began
    log,              \* [kind, name] of the blocks the load processed successfully
    ahead,            \* after a raise: the block that follows in the source, if any
    args,             \* arguments of the last RailPlotter / control call
    group,            \* the dict of RailPlotGroup a script has loaded (NoValue: none)
    disk              \* the directories and the files of the file system

vars == <<plotterFactory, datasetFactory, plotter_classes, extractor_classes,
          pc, pos, read, made, err, ret, base, log, ahead, args, group, disk>>

\* what the calls on the two registries never touch
plotVars == <<args, group, disk>>

----------------------------------------------------------------------------
(* Python dict *)

EmptyDict == <<>>

DictKeys(d) == [i \in 1..Len(d) |-> d[i].k]

DictHas(d, k) == \E i \in 1..Len(d) : d[i].k = k

DictGet(d, k) == d[CHOOSE i \in 1..Len(d) : d[i].k = k].v

DictSet(d, k, v) ==
    IF DictHas(d, k)
    THEN [i \in 1..Len(d) |-> IF d[i].k = k THEN [k |-> k, v |-> v] ELSE d[i]]
    ELSE Append(d, [k |-> k, v |-> v])

----------------------------------------------------------------------------
(* Exceptions *)

NoErr == [type |-> "None", msg |-> "", key |-> "", known |-> <<>>]

Raise(type, msg, key, known) ==
    [type |-> type, msg |-> msg, key |-> key, known |-> known]

NoValue == [tag |-> "NoValue"]

----------------------------------------------------------------------------
(* yaml blocks.  has: the keys present in the block's mapping. *)

NoInstance == [tag |-> "None"]

\* a file system with the current directory only: dirs, whether a directory
\* that is missing can be created, and the figure each file holds
NoDisk == [dirs |-> {"."}, creatable |-> TRUE, files |-> <<>>]

PzPlotters == <<"rail", "plotting", "pz_plotters">>
Hist2D == "PZPlotterPointEstimateVsTrueHist2D"
Profile == "PZPlotterPointEstimateVsTrueProfile"
Accuracies == "PZPlotterAccuraciesVsTrue"

NoCfg == [x \in {} |-> 0]

PlotterBlock(has, name, class_name, cfg) ==
    [kind |-> "Plotter", has |-> has, name |-> name, class_name |-> class_name,
     cfg |-> cfg, members |-> <<>>]

PlotterListBlock(has, name, plotters) ==
    [kind |-> "PlotterList", has |-> has, name |-> name, class_name |-> <<>>,
     cfg |-> NoCfg, members |-> plotters]

OtherBlock ==
    [kind |-> "Other", has |-> {"name"}, name |-> "a", class_name |-> <<>>,
     cfg |-> NoCfg, members |-> <<>>]

PlotterBlocks ==
    { PlotterBlock({"name", "class_name"}, "a", Append(PzPlotters, Hist2D), NoCfg),
      PlotterBlock({"name", "class_name"}, "a", Append(PzPlotters, Profile),
                   [n_zbins |-> 60]),
      PlotterBlock({"name", "class_name"}, "g", Append(PzPlotters, Hist2D), NoCfg),
      PlotterBlock({"name", "class_name"}, "g", Append(PzPlotters, Accuracies),
                   [n_zbins |-> 60, nbins |-> 60, zmax |-> 3]),
      PlotterBlock({"class_name"}, "", Append(PzPlotters, Hist2D), NoCfg),
      PlotterBlock({"name"}, "g", <<>>, NoCfg),
      PlotterListBlock({"name", "plotters"}, "g", <<"a">>),
      PlotterListBlock({"name", "plotters"}, "g", <<"a", "g">>),
      PlotterListBlock({"name", "plotters"}, "a", <<"g", "a">>),
      PlotterListBlock({"plotters"}, "", <<"a">>),
      PlotterListBlock({"name"}, "g", <<>>),
      OtherBlock }

----------------------------------------------------------------------------
(* RailPlotter: class registry and constructor *)

\* what importing a module defines (each class statement runs __init_subclass__)
ModuleClasses(module) ==
    IF module = PzPlotters THEN <<Hist2D, Profile, Accuracies>> ELSE <<>>

Importable(module) == module = PzPlotters

RECURSIVE RegisterAll(_, _)
RegisterAll(classes, names) ==
    IF names = <<>> THEN classes
    ELSE RegisterAll(DictSet(classes, Head(names), Head(names)), Tail(names))

\* config_options of a plotter class: key, default, required
\* (a float that is no whole number is kept as its literal)
ConfigOptions(cls) ==
    <<[key |-> "z_min", default |-> 0, required |-> FALSE],
      [key |-> "z_max", default |-> 3, required |-> FALSE],
      [key |-> "n_zbins", default |-> 150, required |-> FALSE]>>
    \o (IF cls = Accuracies
        THEN <<[key |-> "delta_cutoff", default |-> "0.1", required |-> FALSE]>>
        ELSE <<>>)

ConfigKeys(cls) == {ConfigOptions(cls)[i].key : i \in 1..Len(ConfigOptions(cls))}

\* list(d.keys()) of a dict kept as a function: its keys, in one fixed order
RECURSIVE KeyList(_)
KeyList(keys) ==
    IF keys = {} THEN <<>>
    ELSE LET k == CHOOSE k \in keys : TRUE IN <<k>> \o KeyList(keys \ {k})

\* _set_config taking the default of an option whether or not it is required
SetConfigDefaulting(opts, kwargs) ==
    LET keys == {opts[i].key : i \in 1..Len(opts)}
        kwcopy == DOMAIN kwargs \ keys
    IN  IF kwcopy # {}
        THEN [err |-> Raise("ValueError", "Unrecogonized configruation parameters",
                            "", KeyList(kwcopy)),
              config |-> NoCfg]
        ELSE [err |-> NoErr,
              config |-> [key \in keys |->
                            IF key \in DOMAIN kwargs THEN kwargs[key]
                            ELSE LET i == CHOOSE i \in 1..Len(opts) : opts[i].key = key
                                 IN opts[i].default]]

\* _set_config without the closing `if kwcopy` test
SetConfigLenient(opts, kwargs) ==
    LET keys == {opts[i].key : i \in 1..Len(opts)}
        missing == {i \in 1..Len(opts) :
                       opts[i].key \notin DOMAIN kwargs /\ opts[i].required}
    IN  IF missing # {}
        THEN [err |-> Raise("ValueError", "Missing configuration option",
                            opts[CHOOSE i \in missing : \A j \in missing : i <= j].key,
                            <<>>),
              config |-> NoCfg]
        ELSE [err |-> NoErr,
              config |-> [key \in keys |->
                            IF key \in DOMAIN kwargs THEN kwargs[key]
                            ELSE LET i == CHOOSE i \in 1..Len(opts) : opts[i].key = key
                                 IN opts[i].default]]

\* RailPlotter._set_config on the StageConfig built from opts: [err, config]
SetConfig(opts, kwargs) ==
    LET keys == {opts[i].key : i \in 1..Len(opts)}
        missing == {i \in 1..Len(opts) :
                       opts[i].key \notin DOMAIN kwargs /\ opts[i].required}
        kwcopy == DOMAIN kwargs \ keys
        config == [key \in keys |->
                     IF key \in DOMAIN kwargs THEN kwargs[key]
                     ELSE LET i == CHOOSE i \in 1..Len(opts) : opts[i].key = key
                          IN opts[i].default]
    IN  IF missing # {}
        THEN [err |-> Raise("ValueError", "Missing configuration option",
                            opts[CHOOSE i \in missing : \A j \in missing : i <= j].key,
                            <<>>),
              config |-> NoCfg]
        ELSE IF kwcopy # {}
        THEN [err |-> Raise("ValueError", "Unrecogonized configruation parameters",
                            "", KeyList(kwcopy)),
              config |-> NoCfg]
        ELSE [err |-> NoErr, config |-> config]

\* RailPlotter.__init__: [err, plotter]
PlotterInit(name, cls, opts, kwargs) ==
    LET set == SetConfig(opts, kwargs)
    IN  [err |-> set.err,
         plotter |-> IF set.err # NoErr THEN NoValue
                     ELSE [name |-> name, cls |-> cls, config |-> set.config]]

\* RailPlotter.get_plotter_class
GetPlotterClass(classes, name) ==
    IF DictHas(classes, name)
    THEN [err |-> NoErr, cls |-> DictGet(classes, name)]
    ELSE [err |-> Raise("KeyError", "Could not find plotter class", name,
                        DictKeys(classes)),
          cls |-> ""]

\* load_plotter_class looking the class up before it imports the module
LoadPlotterClassUnloaded(classes, class_name) ==
    LET module == SubSeq(class_name, 1, Len(class_name) - 1)
        bare == class_name[Len(class_name)]
    IN  IF module = <<>>
        THEN [err |-> Raise("ValueError", "Empty module name", "", <<>>),
              cls |-> "", classes |-> classes]
        ELSE IF ~Importable(module)
        THEN [err |-> Raise("ImportError", "No module named", "", module),
              cls |-> "", classes |-> classes]
        ELSE LET after == RegisterAll(classes, ModuleClasses(module))
                 got == GetPlotterClass(classes, bare)
             IN [err |-> got.err, cls |-> got.cls, classes |-> after]

\* RailPlotter.load_plotter_class: [err, cls, classes]
LoadPlotterClass(classes, class_name) ==
    LET module == SubSeq(class_name, 1, Len(class_name) - 1)
        bare == class_name[Len(class_name)]
    IN  IF module = <<>>
        THEN [err |-> Raise("ValueError", "Empty module name", "", <<>>),
              cls |-> "", classes |-> classes]
        ELSE IF ~Importable(module)
        THEN [err |-> Raise("ImportError", "No module named", "", module),
              cls |-> "", classes |-> classes]
        ELSE LET after == RegisterAll(classes, ModuleClasses(module))
                 got == GetPlotterClass(after, bare)
             IN [err |-> got.err, cls |-> got.cls, classes |-> after]

\* create_from_dict falling back on a class when the block names none
CreateFromDictDefaulting(classes, name, block) ==
    LET class_name == IF "class_name" \in block.has THEN block.class_name
                      ELSE Append(PzPlotters, Hist2D)
        loaded == LoadPlotterClass(classes, class_name)
    IN IF loaded.err # NoErr
       THEN [err |-> loaded.err, plotter |-> NoValue, classes |-> loaded.classes]
       ELSE LET set == SetConfig(ConfigOptions(loaded.cls), block.cfg)
            IN [err |-> set.err,
                plotter |-> IF set.err # NoErr THEN NoValue
                            ELSE [name |-> name, cls |-> loaded.cls,
                                  config |-> set.config],
                classes |-> loaded.classes]

\* RailPlotter.create_from_dict: [err, plotter, classes]
CreateFromDict(classes, name, block) ==
    IF "class_name" \notin block.has
    THEN [err |-> Raise("KeyError", "", "class_name", <<>>),
          plotter |-> NoValue, classes |-> classes]
    ELSE LET loaded == LoadPlotterClass(classes, block.class_name)
         IN IF loaded.err # NoErr
            THEN [err |-> loaded.err, plotter |-> NoValue,
                  classes |-> loaded.classes]
            ELSE LET set == SetConfig(ConfigOptions(loaded.cls), block.cfg)
                 IN [err |-> set.err,
                     plotter |-> IF set.err # NoErr THEN NoValue
                                 ELSE [name |-> name, cls |-> loaded.cls,
                                       config |-> set.config],
                     classes |-> loaded.classes]

----------------------------------------------------------------------------
(* PlotterFactory *)

\* PlotterFactory.__init__
NewPlotterFactory ==
    [plotter_dict |-> EmptyDict, plotter_list_dict |-> EmptyDict]

\* _make_plotter without its `if name in self._plotter_dict` test
MakePlotterRebinding(f, classes, name, block) ==
    LET made_ == CreateFromDict(classes, name, block)
    IN IF made_.err # NoErr
       THEN [err |-> made_.err, factory |-> f, classes |-> made_.classes]
       ELSE [err |-> NoErr,
             factory |-> [f EXCEPT !.plotter_dict = DictSet(@, name, made_.plotter)],
             classes |-> made_.classes]

\* PlotterFactory._make_plotter: [err, factory, classes]
MakePlotter(f, classes, name, block) ==
    IF DictHas(f.plotter_dict, name)
    THEN [err |-> Raise("KeyError", "Plotter is already defined", name, <<>>),
          factory |-> f, classes |-> classes]
    ELSE LET made_ == CreateFromDict(classes, name, block)
         IN IF made_.err # NoErr
            THEN [err |-> made_.err, factory |-> f, classes |-> made_.classes]
            ELSE [err |-> NoErr,
                  factory |-> [f EXCEPT !.plotter_dict =
                                 DictSet(@, name, made_.plotter)],
                  classes |-> made_.classes]

\* the for loop of _make_plotter_list appending, for each name, the plotter
\* that was registered first
RECURSIVE ResolvePlottersFirst(_, _, _)
ResolvePlottersFirst(f, plotter_list, plotters) ==
    IF plotter_list = <<>> THEN [err |-> NoErr, plotters |-> plotters]
    ELSE LET plotter_name == Head(plotter_list)
         IN IF ~DictHas(f.plotter_dict, plotter_name)
            THEN [err |-> Raise("KeyError",
                                "RailPlotter used in PlotterList is not found",
                                plotter_name, DictKeys(f.plotter_dict)),
                  plotters |-> plotters]
            ELSE ResolvePlottersFirst(f, Tail(plotter_list),
                                      Append(plotters, f.plotter_dict[1].v))

\* the for loop of _make_plotter_list putting each plotter in front
RECURSIVE ResolvePlottersReversed(_, _, _)
ResolvePlottersReversed(f, plotter_list, plotters) ==
    IF plotter_list = <<>> THEN [err |-> NoErr, plotters |-> plotters]
    ELSE LET plotter_name == Head(plotter_list)
         IN IF ~DictHas(f.plotter_dict, plotter_name)
            THEN [err |-> Raise("KeyError",
                                "RailPlotter used in PlotterList is not found",
                                plotter_name, DictKeys(f.plotter_dict)),
                  plotters |-> plotters]
            ELSE ResolvePlottersReversed(f, Tail(plotter_list),
                                         <<DictGet(f.plotter_dict, plotter_name)>>
                                           \o plotters)

\* the for loop of _make_plotter_list: [err, plotters]
RECURSIVE ResolvePlotters(_, _, _)
ResolvePlotters(f, plotter_list, plotters) ==
    IF plotter_list = <<>> THEN [err |-> NoErr, plotters |-> plotters]
    ELSE LET plotter_name == Head(plotter_list)
         IN IF ~DictHas(f.plotter_dict, plotter_name)
            THEN [err |-> Raise("KeyError",
                                "RailPlotter used in PlotterList is not found",
                                plotter_name, DictKeys(f.plotter_dict)),
                  plotters |-> plotters]
            ELSE ResolvePlotters(f, Tail(plotter_list),
                                 Append(plotters,
                                        DictGet(f.plotter_dict, plotter_name)))

\* _make_plotter_list binding the name to its list before the loop fills it
MakePlotterListEarly(f, name, plotter_list) ==
    IF DictHas(f.plotter_list_dict, name)
    THEN [err |-> Raise("KeyError", "PlotterList is already defined", name, <<>>),
          factory |-> f]
    ELSE LET got == ResolvePlotters(f, plotter_list, <<>>)
         IN [err |-> got.err,
             factory |-> [f EXCEPT !.plotter_list_dict =
                            DictSet(@, name, got.plotters)]]

\* _make_plotter_list leaving out the members it does not find
MakePlotterListLenient(f, name, plotter_list) ==
    IF DictHas(f.plotter_list_dict, name)
    THEN [err |-> Raise("KeyError", "PlotterList is already defined", name, <<>>),
          factory |-> f]
    ELSE LET got == ResolvePlotters(
                        f, SelectSeq(plotter_list,
                                     LAMBDA n : DictHas(f.plotter_dict, n)), <<>>)
         IN [err |-> NoErr,
             factory |-> [f EXCEPT !.plotter_list_dict =
                            DictSet(@, name, got.plotters)]]

\* PlotterFactory._make_plotter_list: [err, factory]
MakePlotterList(f, name, plotter_list) ==
    IF DictHas(f.plotter_list_dict, name)
    THEN [err |-> Raise("KeyError", "PlotterList is already defined", name, <<>>),
          factory |-> f]
    ELSE LET got == ResolvePlotters(f, plotter_list, <<>>)
         IN IF got.err # NoErr
            THEN [err |-> got.err, factory |-> f]
            ELSE [err |-> NoErr,
                  factory |-> [f EXCEPT !.plotter_list_dict =
                                 DictSet(@, name, got.plotters)]]

\* one iteration of the loop of PlotterFactory.load_instance_yaml:
\* [err, factory, classes]
PlotterLoadBlock(f, classes, block) ==
    IF block.kind = "Plotter"
    THEN IF "name" \notin block.has
         THEN [err |-> Raise("KeyError",
                             "Plotter yaml block does not contain name for plotter",
                             "name", <<>>),
               factory |-> f, classes |-> classes]
         ELSE MakePlotter(f, classes, block.name, block)
    ELSE IF block.kind = "PlotterList"
    THEN IF "name" \notin block.has
         THEN [err |-> Raise("KeyError",
                             "PlotterList yaml block does not contain name for plotter",
                             "name", <<>>),
               factory |-> f, classes |-> classes]
         ELSE IF "plotters" \notin block.has
         THEN [err |-> Raise("KeyError",
                             "PlotterList yaml block does not contain plotter",
                             "plotters", <<>>),
               factory |-> f, classes |-> classes]
         ELSE LET r == MakePlotterList(f, block.name, block.members)
              IN [err |-> r.err, factory |-> r.factory, classes |-> classes]
    ELSE \* plotter_data is the list of blocks: plotter_data.keys() raises
         \* before the KeyError is built
         [err |-> Raise("AttributeError", "'list' object has no attribute 'keys'",
                        "", <<>>),
          factory |-> f, classes |-> classes]

----------------------------------------------------------------------------
(* RailDatasetFactory *)

PzDataExtraction == <<"rail", "plotting", "pz_data_extraction">>
PointEstimate == "PZPointEstimateDataExtractor"

DatasetBlock(has, name, extractor, kwargs) ==
    [kind |-> "Dataset", has |-> has, name |-> name, class_name |-> extractor,
     cfg |-> kwargs, members |-> <<>>]

DatasetDictBlock(has, name, datasets) ==
    [kind |-> "DatasetDict", has |-> has, name |-> name, class_name |-> <<>>,
     cfg |-> NoCfg, members |-> datasets]

ProjectBlock(has, name, yaml_file) ==
    [kind |-> "Project", has |-> has, name |-> name, class_name |-> <<>>,
     cfg |-> [yaml_file |-> yaml_file], members |-> <<>>]

DatasetBlocks ==
    { ProjectBlock({"name", "yaml_file"}, "project_name", "one.yaml"),
      ProjectBlock({"name", "yaml_file"}, "p", "two.yaml"),
      ProjectBlock({"name", "yaml_file"}, "p", "one.yaml"),
      ProjectBlock({"yaml_file"}, "", "one.yaml"),
      ProjectBlock({"name"}, "p", ""),
      DatasetBlock({"name", "extractor"}, "a", Append(PzDataExtraction, PointEstimate),
                   [project |-> "p", selection |-> "gold"]),
      DatasetBlock({"name", "extractor"}, "a", Append(PzDataExtraction, PointEstimate),
                   [project |-> "q", selection |-> "blend"]),
      DatasetBlock({"name", "extractor"}, "g", Append(PzDataExtraction, PointEstimate),
                   [project |-> "project_name", selection |-> "gold"]),
      DatasetBlock({"name", "extractor"}, "g", Append(PzDataExtraction, PointEstimate),
                   [selection |-> "gold"]),
      DatasetBlock({"extractor"}, "", Append(PzDataExtraction, PointEstimate),
                   [project |-> "p"]),
      DatasetBlock({"name"}, "g", <<>>, [project |-> "p"]),
      DatasetDictBlock({"name", "datasets"}, "g", <<"a">>),
      DatasetDictBlock({"name", "datasets"}, "g", <<"a", "g">>),
      DatasetDictBlock({"name", "datasets"}, "a", <<"g", "a">>),
      DatasetDictBlock({"datasets"}, "", <<"a">>),
      DatasetDictBlock({"name"}, "g", <<>>),
      OtherBlock }

\* what importing a module of extractors defines
ExtractorModuleClasses(module) ==
    IF module = PzDataExtraction THEN <<PointEstimate>> ELSE <<>>

ExtractorImportable(module) == module = PzDataExtraction

\* RailProjectDataExtractor.get_extractor_class, keyed by the bare class name
GetExtractorClass(classes, name) ==
    IF DictHas(classes, name)
    THEN [err |-> NoErr, cls |-> DictGet(classes, name)]
    ELSE [err |-> Raise("KeyError", "Could not find extractor class", name,
                        DictKeys(classes)),
          cls |-> ""]

\* RailProjectDataExtractor.load_extractor_class: [err, cls, classes]
LoadExtractorClass(classes, class_name) ==
    LET module == SubSeq(class_name, 1, Len(class_name) - 1)
        bare == class_name[Len(class_name)]
    IN  IF ~ExtractorImportable(module)
        THEN [err |-> Raise("ImportError", "No module named", "", module),
              cls |-> "", classes |-> classes]
        ELSE LET after == RegisterAll(classes, ExtractorModuleClasses(module))
                 got == GetExtractorClass(after, bare)
             IN [err |-> got.err, cls |-> got.cls, classes |-> after]

\* the dotted path as one string is a registry key only when it has no dots
Dotted(class_name) == IF Len(class_name) = 1 THEN class_name[1] ELSE "<dotted>"

\* RailDatasetFactory._get_extractor: [err, cls, classes]
GetExtractor(classes, class_name) ==
    LET got == GetExtractorClass(classes, Dotted(class_name))
    IN  IF got.err = NoErr
        THEN [err |-> NoErr, cls |-> got.cls, classes |-> classes]
        ELSE LoadExtractorClass(classes, class_name)

\* RailProject.load_config
LoadConfig(project_yaml) == [yaml_file |-> project_yaml]

\* the extractor called on a project and the rest of the block
Extract(cls, project, kwargs) ==
    [extractor |-> cls, project |-> project, kwargs |-> kwargs]

\* RailDatasetFactory.__init__
NewDatasetFactory ==
    [projects |-> EmptyDict, datasets |-> EmptyDict, dataset_dicts |-> EmptyDict]

\* the key _make_dataset looks up in self._projects
ProjectKey(project_name) == "project_name"

\* RailDatasetFactory._make_dataset: [err, factory, classes]
MakeDataset(f, classes, name, class_name, kwargs) ==
    IF DictHas(f.datasets, name)
    THEN [err |-> Raise("KeyError", "Dataset is already defined", name, <<>>),
          factory |-> f, classes |-> classes]
    ELSE LET ext == GetExtractor(classes, class_name)
         IN IF ext.err # NoErr
            THEN [err |-> ext.err, factory |-> f, classes |-> ext.classes]
            ELSE IF "project" \notin DOMAIN kwargs
            THEN [err |-> Raise("KeyError", "", "project", <<>>),
                  factory |-> f, classes |-> ext.classes]
            ELSE LET project_name == kwargs.project
                     rest == [key \in DOMAIN kwargs \ {"project"} |-> kwargs[key]]
                 IN IF ~DictHas(f.projects, ProjectKey(project_name))
                    THEN [err |-> Raise("KeyError", "Could not find project",
                                        project_name, DictKeys(f.projects)),
                          factory |-> f, classes |-> ext.classes]
                    ELSE LET project == DictGet(f.projects, ProjectKey(project_name))
                             dataset == Extract(ext.cls, project, rest)
                         IN [err |-> NoErr,
                             factory |-> [f EXCEPT !.datasets =
                                            DictSet(@, name, dataset)],
                             classes |-> ext.classes]

\* the for loop of _make_dataset_dict: [err, datasets]
RECURSIVE ResolveDatasets(_, _, _)
ResolveDatasets(f, dataset_name_list, datasets) ==
    IF dataset_name_list = <<>> THEN [err |-> NoErr, datasets |-> datasets]
    ELSE LET dataset_name == Head(dataset_name_list)
         IN IF ~DictHas(f.datasets, dataset_name)
            THEN [err |-> Raise("KeyError",
                                "Dataset used in DatasetList is not found",
                                dataset_name, DictKeys(f.datasets)),
                  datasets |-> datasets]
            ELSE ResolveDatasets(f, Tail(dataset_name_list),
                                 DictSet(datasets, dataset_name,
                                         DictGet(f.datasets, dataset_name)))

\* the map _make_dataset_dict tests the new name against
DatasetDictNames(f) == f.datasets

\* RailDatasetFactory._make_dataset_dict: [err, factory]
MakeDatasetDict(f, name, dataset_name_list) ==
    IF DictHas(DatasetDictNames(f), name)
    THEN [err |-> Raise("KeyError", "DatasetDict is already defined", name, <<>>),
          factory |-> f]
    ELSE LET got == ResolveDatasets(f, dataset_name_list, EmptyDict)
         IN IF got.err # NoErr
            THEN [err |-> got.err, factory |-> f]
            ELSE [err |-> NoErr,
                  factory |-> [f EXCEPT !.dataset_dicts =
                                 DictSet(@, name, got.datasets)]]

\* one iteration of the loop of RailDatasetFactory.load_instance_yaml:
\* [err, factory, classes]
DatasetLoadBlock(f, classes, block) ==
    IF block.kind = "Dataset"
    THEN IF "name" \notin block.has
         THEN [err |-> Raise("KeyError",
                             "Dataset yaml block does not contain name for dataset",
                             "name", <<>>),
               factory |-> f, classes |-> classes]
         ELSE IF "extractor" \notin block.has
         THEN [err |-> Raise("KeyError",
                             "Dataset yaml block does not contain extractor for dataset",
                             "extractor", <<>>),
               factory |-> f, classes |-> classes]
         ELSE MakeDataset(f, classes, block.name, block.class_name, block.cfg)
    ELSE IF block.kind = "DatasetDict"
    THEN IF "name" \notin block.has
         THEN [err |-> Raise("KeyError",
                             "DatasetList yaml block does not contain name for dataset",
                             "name", <<>>),
               factory |-> f, classes |-> classes]
         ELSE IF "datasets" \notin block.has
         THEN [err |-> Raise("KeyError",
                             "DatasetList yaml block does not contain dataset",
                             "datasets", <<>>),
               factory |-> f, classes |-> classes]
         ELSE LET r == MakeDatasetDict(f, block.name, block.members)
              IN [err |-> r.err, factory |-> r.factory, classes |-> classes]
    ELSE IF block.kind = "Project"
    THEN IF "name" \notin block.has
         THEN [err |-> Raise("KeyError",
                             "Project yaml block does not contain name for project",
                             "name", <<>>),
               factory |-> f, classes |-> classes]
         ELSE IF "yaml_file" \notin block.has
         THEN [err |-> Raise("KeyError",
                             "Project yaml block does not contain yaml_file",
                             "yaml_file", <<>>),
               factory |-> f, classes |-> classes]
         ELSE [err |-> NoErr,
               factory |-> [f EXCEPT !.projects =
                              DictSet(@, block.name, LoadConfig(block.cfg.yaml_file))],
               classes |-> classes]
    ELSE \* dataset_data is the list of blocks: dataset_data.keys() raises
         \* before the KeyError is built
         [err |-> Raise("AttributeError", "'list' object has no attribute 'keys'",
                        "", <<>>),
          factory |-> f, classes |-> classes]

----------------------------------------------------------------------------
(* The process: calls of the class methods, one load loop iteration at a time *)

PlotterNames == {"a", "g"}
DatasetNames == {"a", "g"}

Init ==
    /\ plotterFactory = NoInstance
    /\ datasetFactory = NoInstance
    /\ plotter_classes = EmptyDict
    /\ extractor_classes = EmptyDict
    /\ pc = "idle"
    /\ pos = 0
    /\ read = 0
    /\ made = [plotter |-> 0, dataset |-> 0]
    /\ err = NoErr
    /\ ret = NoValue
    /\ base = NoValue
    /\ log = <<>>
    /\ ahead = <<>>
    /\ args = NoValue
    /\ group = NoValue
    /\ disk = NoDisk

\* `cls._instance = PlotterFactory()` without the `is None` test
PlotterEnsureAnew(inst) == NewPlotterFactory

\* `if cls._instance is None: cls._instance = PlotterFactory()`
PlotterEnsure(inst) == IF inst = NoInstance THEN NewPlotterFactory ELSE inst

PlotterCtor(inst) == IF inst = NoInstance THEN 1 ELSE 0

\* `if cls._instance is None: cls._instance = RailDatasetFactory()`
DatasetEnsure(inst) == IF inst = NoInstance THEN NewDatasetFactory ELSE inst

DatasetCtor(inst) == IF inst = NoInstance THEN 1 ELSE 0

\* the frames of a finished load are gone when the next call is made
Forget ==
    /\ pos' = 0
    /\ base' = NoValue
    /\ log' = <<>>
    /\ ahead' = <<>>

\* PlotterFactory.instance()
PlotterInstance ==
    /\ UNCHANGED plotVars
    /\ pc = "idle"
    /\ plotterFactory' = PlotterEnsure(plotterFactory)
    /\ made' = [made EXCEPT !.plotter = @ + PlotterCtor(plotterFactory)]
    /\ ret' = [call |-> "PlotterFactory.instance", value |-> plotterFactory']
    /\ err' = NoErr
    /\ Forget
    /\ UNCHANGED <<datasetFactory, plotter_classes, extractor_classes, pc, read>>

\* PlotterFactory.print_contents()
PlotterPrintContents ==
    /\ UNCHANGED plotVars
    /\ pc = "idle"
    /\ plotterFactory' = PlotterEnsure(plotterFactory)
    /\ made' = [made EXCEPT !.plotter = @ + PlotterCtor(plotterFactory)]
    /\ ret' = NoValue
    /\ err' = NoErr
    /\ Forget
    /\ UNCHANGED <<datasetFactory, plotter_classes, extractor_classes, pc, read>>

\* PlotterFactory.load_yaml(): up to the first iteration of the loop
PlotterLoadYaml ==
    /\ UNCHANGED plotVars
    /\ pc = "idle"
    /\ plotterFactory' = PlotterEnsure(plotterFactory)
    /\ made' = [made EXCEPT !.plotter = @ + PlotterCtor(plotterFactory)]
    /\ pc' = "plotter_load"
    /\ pos' = 0
    /\ base' = plotterFactory'
    /\ log' = <<>>
    /\ ahead' = <<>>
    /\ ret' = NoValue
    /\ err' = NoErr
    /\ UNCHANGED <<datasetFactory, plotter_classes, extractor_classes, read>>

\* what may follow in the source once n blocks have been read
Following(blocks, n) ==
    IF n < MaxBlocks THEN {<<>>} \cup {<<b>> : b \in blocks} ELSE {<<>>}

\* one iteration of the loop of PlotterFactory.load_instance_yaml
PlotterLoadStep(block) ==
    /\ UNCHANGED plotVars
    /\ pc = "plotter_load"
    /\ read < MaxBlocks
    /\ LET r == PlotterLoadBlock(plotterFactory, plotter_classes, block)
       IN /\ plotterFactory' = r.factory
          /\ plotter_classes' = r.classes
          /\ err' = r.err
          /\ pos' = pos + 1
          /\ read' = read + 1
          /\ IF r.err = NoErr
             THEN /\ pc' = pc
                  /\ log' = Append(log, [kind |-> block.kind, name |-> block.name])
                  /\ ahead' = <<>>
             ELSE /\ pc' = "idle"
                  /\ log' = log
                  /\ ahead' \in Following(PlotterBlocks, read + 1)
    /\ UNCHANGED <<datasetFactory, extractor_classes, made, ret, base>>

\* the loop of PlotterFactory.load_instance_yaml has no block left
PlotterLoadEnd ==
    /\ UNCHANGED plotVars
    /\ pc = "plotter_load"
    /\ pc' = "idle"
    /\ UNCHANGED <<plotterFactory, datasetFactory, plotter_classes,
                   extractor_classes, pos, read, made, err, ret, base, log, ahead>>

\* PlotterFactory.get_plotter(name)
GetPlotter(name) ==
    /\ UNCHANGED plotVars
    /\ pc = "idle"
    /\ plotterFactory' = PlotterEnsure(plotterFactory)
    /\ made' = [made EXCEPT !.plotter = @ + PlotterCtor(plotterFactory)]
    /\ IF DictHas(plotterFactory'.plotter_dict, name)
       THEN /\ ret' = [call |-> "get_plotter",
                       value |-> DictGet(plotterFactory'.plotter_dict, name)]
            /\ err' = NoErr
       ELSE /\ ret' = NoValue
            /\ err' = Raise("KeyError", "Plotter not found in RailPlotterFactory",
                            name, DictKeys(plotterFactory'.plotter_dict))
    /\ Forget
    /\ UNCHANGED <<datasetFactory, plotter_classes, extractor_classes, pc, read>>

\* PlotterFactory.get_plotter_list(name)
GetPlotterList(name) ==
    /\ UNCHANGED plotVars
    /\ pc = "idle"
    /\ plotterFactory' = PlotterEnsure(plotterFactory)
    /\ made' = [made EXCEPT !.plotter = @ + PlotterCtor(plotterFactory)]
    /\ IF DictHas(plotterFactory'.plotter_list_dict, name)
       THEN /\ ret' = [call |-> "get_plotter_list",
                       value |-> DictGet(plotterFactory'.plotter_list_dict, name)]
            /\ err' = NoErr
       ELSE /\ ret' = NoValue
            /\ err' = Raise("KeyError", "PlotterList not found in RailPlotterFactory",
                            name, DictKeys(plotterFactory'.plotter_list_dict))
    /\ Forget
    /\ UNCHANGED <<datasetFactory, plotter_classes, extractor_classes, pc, read>>

\* RailDatasetFactory.instance()
DatasetInstance ==
    /\ UNCHANGED plotVars
    /\ pc = "idle"
    /\ datasetFactory' = DatasetEnsure(datasetFactory)
    /\ made' = [made EXCEPT !.dataset = @ + DatasetCtor(datasetFactory)]
    /\ ret' = [call |-> "RailDatasetFactory.instance", value |-> datasetFactory']
    /\ err' = NoErr
    /\ Forget
    /\ UNCHANGED <<plotterFactory, plotter_classes, extractor_classes, pc, read>>

\* RailDatasetFactory.print_contents()
DatasetPrintContents ==
    /\ UNCHANGED plotVars
    /\ pc = "idle"
    /\ datasetFactory' = DatasetEnsure(datasetFactory)
    /\ made' = [made EXCEPT !.dataset = @ + DatasetCtor(datasetFactory)]
    /\ ret' = NoValue
    /\ err' = NoErr
    /\ Forget
    /\ UNCHANGED <<plotterFactory, plotter_classes, extractor_classes, pc, read>>

\* RailDatasetFactory.load_yaml(): up to the first iteration of the loop
DatasetLoadYaml ==
    /\ UNCHANGED plotVars
    /\ pc = "idle"
    /\ datasetFactory' = DatasetEnsure(datasetFactory)
    /\ made' = [made EXCEPT !.dataset = @ + DatasetCtor(datasetFactory)]
    /\ pc' = "dataset_load"
    /\ pos' = 0
    /\ base' = datasetFactory'
    /\ log' = <<>>
    /\ ahead' = <<>>
    /\ ret' = NoValue
    /\ err' = NoErr
    /\ UNCHANGED <<plotterFactory, plotter_classes, extractor_classes, read>>

\* one iteration of the loop of RailDatasetFactory.load_instance_yaml
DatasetLoadStep(block) ==
    /\ UNCHANGED plotVars
    /\ pc = "dataset_load"
    /\ read < MaxBlocks
    /\ LET r == DatasetLoadBlock(datasetFactory, extractor_classes, block)
       IN /\ datasetFactory' = r.factory
          /\ extractor_classes' = r.classes
          /\ err' = r.err
          /\ pos' = pos + 1
          /\ read' = read + 1
          /\ IF r.err = NoErr
             THEN /\ pc' = pc
                  /\ log' = Append(log, [kind |-> block.kind, name |-> block.name])
                  /\ ahead' = <<>>
             ELSE /\ pc' = "idle"
                  /\ log' = log
                  /\ ahead' \in Following(DatasetBlocks, read + 1)
    /\ UNCHANGED <<plotterFactory, plotter_classes, made, ret, base>>

\* the loop of RailDatasetFactory.load_instance_yaml has no block left
DatasetLoadEnd ==
    /\ UNCHANGED plotVars
    /\ pc = "dataset_load"
    /\ pc' = "idle"
    /\ UNCHANGED <<plotterFactory, datasetFactory, plotter_classes,
                   extractor_classes, pos, read, made, err, ret, base, log, ahead>>

\* RailDatasetFactory.get_dataset(name)
GetDataset(name) ==
    /\ UNCHANGED plotVars
    /\ pc = "idle"
    /\ datasetFactory' = DatasetEnsure(datasetFactory)
    /\ made' = [made EXCEPT !.dataset = @ + DatasetCtor(datasetFactory)]
    /\ IF DictHas(datasetFactory'.datasets, name)
       THEN /\ ret' = [call |-> "get_dataset",
                       value |-> DictGet(datasetFactory'.datasets, name)]
            /\ err' = NoErr
       ELSE /\ ret' = NoValue
            /\ err' = Raise("KeyError", "Dataset not found in RailDatasetFactory",
                            name, DictKeys(datasetFactory'.datasets))
    /\ Forget
    /\ UNCHANGED <<plotterFactory, plotter_classes, extractor_classes, pc, read>>

\* RailDatasetFactory.get_dataset_dict(name)
GetDatasetDict(name) ==
    /\ UNCHANGED plotVars
    /\ pc = "idle"
    /\ datasetFactory' = DatasetEnsure(datasetFactory)
    /\ made' = [made EXCEPT !.dataset = @ + DatasetCtor(datasetFactory)]
    /\ IF DictHas(datasetFactory'.dataset_dicts, name)
       THEN /\ ret' = [call |-> "get_dataset_dict",
                       value |-> DictGet(datasetFactory'.dataset_dicts, name)]
            /\ err' = NoErr
       ELSE /\ ret' = NoValue
            /\ err' = Raise("KeyError", "DatasetList not found in RailDatasetFactory",
                            name, DictKeys(datasetFactory'.dataset_dicts))
    /\ Forget
    /\ UNCHANGED <<plotterFactory, plotter_classes, extractor_classes, pc, read>>

Next ==
    \/ PlotterInstance
    \/ PlotterPrintContents
    \/ PlotterLoadYaml
    \/ \E block \in PlotterBlocks : PlotterLoadStep(block)
    \/ PlotterLoadEnd
    \/ \E name \in PlotterNames : GetPlotter(name)
    \/ \E name \in PlotterNames : GetPlotterList(name)
    \/ DatasetInstance
    \/ DatasetPrintContents
    \/ DatasetLoadYaml
    \/ \E block \in DatasetBlocks : DatasetLoadStep(block)
    \/ DatasetLoadEnd
    \/ \E name \in DatasetNames : GetDataset(name)
    \/ \E name \in DatasetNames : GetDatasetDict(name)

Spec == Init /\ [][Next]_vars

----------------------------------------------------------------------------
(* Calls of RailPlotter and of rail.plotting.control.  Names and labels are  *)
(* sequences of characters here, "_" being the character the keys are        *)
(* joined with; a word without "_" is one character.                        *)

\* config_options of a subclass that declares a required option
ClientOptions ==
    <<[key |-> "z_min", default |-> 0, required |-> FALSE],
      [key |-> "sample", default |-> NoValue, required |-> TRUE]>>

Client == "ClientPlotter"

OptionsOf(cls) == IF cls = Client THEN ClientOptions ELSE ConfigOptions(cls)

\* keyword arguments a caller passes to a constructor
KwValue(key) ==
    CASE key = "z_min" -> 1
      [] key = "n_zbins" -> 60
      [] key = "sample" -> "gold"
      [] key = "nbins" -> 60
      [] key = "zmax" -> 3

Kwargs == {[key \in keys |-> KwValue(key)] :
              keys \in SUBSET {"z_min", "n_zbins", "sample", "nbins", "zmax"}}

PlotNames == {<<"a">>, <<"b">>, <<"a", "_", "b">>}

\* `inputs` of a plotter class: key, declared type
Inputs(cls) ==
    IF cls = Accuracies
    THEN <<[key |-> "truth", type |-> "np.array"],
           [key |-> "pointEstimates", type |-> "dict[str, np.array]"]>>
    ELSE <<[key |-> "truth", type |-> "np.array"],
           [key |-> "pointEstimate", type |-> "np.array"]>>

\* `_inputs`, the attribute _validate_inputs reads: no class assigns it
PrivateInputs(cls) == <<>>

\* RailPlotter._validate_inputs: the exception it raises, or NoErr.
\* Its KeyError handler formats self._name inside a classmethod, and the
\* declared types are no classes, so isinstance raises on the first value.
ValidateInputs(inputs, kwargs) ==
    IF inputs = <<>> THEN NoErr
    ELSE IF inputs[1].key \notin DOMAIN kwargs
    THEN Raise("NameError", "name 'self' is not defined", inputs[1].key, <<>>)
    ELSE Raise("TypeError", "isinstance() arg 2 must be a type", inputs[1].key, <<>>)

\* the key of the one figure _make_plots of the class returns
Label(cls) ==
    CASE cls = Hist2D -> <<"hist">>
      [] cls = Profile -> <<"profile">>
      [] cls = Accuracies -> <<"accuracy">>

\* the values a figure is drawn from, in the order _make_plots reads them
Reads(cls) ==
    IF cls = Accuracies THEN <<"truth", "pointEstimates">>
    ELSE <<"truth", "pointEstimate">>

\* what numpy and matplotlib take without raising, whatever the caller says
Drawable(cls, key, value) ==
    IF key = "pointEstimates" THEN value = "dict" ELSE value = "ndarray"

\* a plot name that leaves the prefix out
MakeFullPlotNameShort(name, prefix, plot_name) == name \o <<"_">> \o plot_name

\* RailPlotter._make_full_plot_name
MakeFullPlotName(name, prefix, plot_name) ==
    name \o <<"_">> \o prefix \o <<"_">> \o plot_name

\* _make_plots of the three classes: [err, out, ran].  lib says whether the
\* library raises on a value that is no array; seq tells the figures apart.
MakePlots(plotter, prefix, kwargs, lib, seq) ==
    LET reads == Reads(plotter.cls)
        absent == {i \in 1..Len(reads) : reads[i] \notin DOMAIN kwargs}
        odd == {i \in 1..Len(reads) : reads[i] \in DOMAIN kwargs
                   /\ ~Drawable(plotter.cls, reads[i], kwargs[reads[i]])}
    IN  IF absent # {}
        THEN [err |-> Raise("KeyError", "",
                            reads[CHOOSE i \in absent : \A j \in absent : i <= j],
                            <<>>),
              out |-> EmptyDict, ran |-> TRUE]
        ELSE IF odd # {} /\ lib = "raises"
        THEN [err |-> Raise("Exception", "raised by numpy or matplotlib",
                            reads[CHOOSE i \in odd : \A j \in odd : i <= j], <<>>),
              out |-> EmptyDict, ran |-> TRUE]
        ELSE [err |-> NoErr,
              out |-> DictSet(EmptyDict,
                              MakeFullPlotName(plotter.name, prefix, Label(plotter.cls)),
                              [figure |-> seq, by |-> plotter.name,
                               cls |-> plotter.cls, prefix |-> prefix]),
              ran |-> TRUE]

\* RailPlotter.__call__: [err, out, ran]
Call(plotter, prefix, kwargs, lib, seq) ==
    LET checked == ValidateInputs(PrivateInputs(plotter.cls), kwargs)
    IN  IF checked # NoErr
        THEN [err |-> checked, out |-> EmptyDict, ran |-> FALSE]
        ELSE MakePlots(plotter, prefix, kwargs, lib, seq)

\* dict.update keeping the value a key already has
RECURSIVE DictUpdateKeeping(_, _)
DictUpdateKeeping(d, e) ==
    IF e = <<>> THEN d
    ELSE DictUpdateKeeping(IF DictHas(d, e[1].k) THEN d
                           ELSE DictSet(d, e[1].k, e[1].v), Tail(e))

\* dict.update
RECURSIVE DictUpdate(_, _)
DictUpdate(d, e) ==
    IF e = <<>> THEN d ELSE DictUpdate(DictSet(d, e[1].k, e[1].v), Tail(e))

\* the loop of iterate_plotters, from out_dict and the invocations made so far
RECURSIVE RunPlotters(_, _, _, _, _, _)
RunPlotters(plotters, prefix, kwargs, lib, out_dict, calls) ==
    IF plotters = <<>> THEN [err |-> NoErr, out |-> out_dict, calls |-> calls]
    ELSE LET called == Call(Head(plotters), prefix, kwargs, lib, Len(calls) + 1)
             logged == Append(calls, [plotter |-> Head(plotters), prefix |-> prefix,
                                      out |-> called.out])
         IN IF called.err # NoErr
            THEN [err |-> called.err, out |-> out_dict, calls |-> logged]
            ELSE RunPlotters(Tail(plotters), prefix, kwargs, lib,
                             DictUpdate(out_dict, called.out), logged)

\* RailPlotter.iterate_plotters: [err, out, calls]
IteratePlotters(plotters, prefix, kwargs, lib, calls) ==
    RunPlotters(plotters, prefix, kwargs, lib, EmptyDict, calls)

\* the loop of iterate
RECURSIVE RunContexts(_, _, _, _, _)
RunContexts(plotters, items, lib, out_dict, calls) ==
    IF items = <<>> THEN [err |-> NoErr, out |-> out_dict, calls |-> calls]
    ELSE LET done == IteratePlotters(plotters, items[1].k, items[1].v, lib, calls)
         IN IF done.err # NoErr
            THEN [err |-> done.err, out |-> out_dict, calls |-> done.calls]
            ELSE RunContexts(plotters, Tail(items), lib,
                             DictUpdate(out_dict, done.out), done.calls)

\* RailPlotter.iterate: [err, out, calls]
Iterate(plotters, data_dict, lib) ==
    RunContexts(plotters, data_dict, lib, EmptyDict, <<>>)

\* the plotters the calls are made on
Plotters ==
    {PlotterInit(name, cls, ConfigOptions(cls), NoCfg).plotter :
        name \in PlotNames, cls \in {Hist2D, Profile, Accuracies}}

\* context labels
Prefixes == {<<"b">>, <<"c">>, <<"b", "_", "c">>}

\* keyword arguments of an invocation: the type of each value
Data ==
    {[truth |-> "ndarray", pointEstimate |-> "ndarray"],
     [truth |-> "ndarray", pointEstimates |-> "dict"],
     [truth |-> "ndarray"],
     [pointEstimate |-> "ndarray"],
     [truth |-> "list", pointEstimate |-> "ndarray"],
     [truth |-> "ndarray", pointEstimate |-> "str"],
     [truth |-> "ndarray", pointEstimates |-> "ndarray"]}

\* lists of plotters, and mappings from a context label to its data
PlotterLists ==
    {<<>>} \cup {<<p>> : p \in Plotters} \cup {<<p, q>> : p, q \in Plotters}

FanData ==
    {[truth |-> "ndarray", pointEstimate |-> "ndarray"],
     [pointEstimate |-> "ndarray"],
     [truth |-> "list", pointEstimate |-> "ndarray"]}

DataDicts ==
    {<<>>} \cup {<<[k |-> c, v |-> d]>> : c \in Prefixes, d \in FanData}
    \cup {<<[k |-> c[1], v |-> d[1]], [k |-> c[2], v |-> d[2]]>> :
             c \in {c \in Prefixes \X Prefixes : c[1] # c[2]},
             d \in FanData \X FanData}

----------------------------------------------------------------------------
(* rail.plotting.control *)

\* the names the statements of a module of the package bind at its top level
ModuleNames(module) ==
    CASE module = "dataset_factory" -> {"RailDatasetFactory"}
      [] module = "plotter_factory" -> {"PlotterFactory"}
      [] module = "plotter" -> {"RailPlotter"}

\* the attributes of a class of the package that control.py reads
ClassAttributes(cls) ==
    CASE cls = "RailDatasetFactory" ->
           {"load_yaml", "print_contents", "get_datasets", "get_dataset_names",
            "get_dataset_dicts", "get_dataset_dict_names", "get_dataset",
            "get_dataset_dict"}
      [] cls = "RailPlotterFactory" ->
           {"load_yaml", "print_contents", "get_plotter", "get_plotter_list"}
      [] cls = "RailPlotter" -> {"iterate", "iterate_plotters", "save_plots"}

\* the module body of control.py, run by its import: the exception of the
\* first statement that raises, or NoErr
ImportControl ==
    IF "RailDatasetFactory" \notin ModuleNames("dataset_factory")
    THEN Raise("ImportError", "cannot import name", "RailDatasetFactory",
               <<"rail", "plotting", "dataset_factory">>)
    ELSE IF "RailPlotterFactory" \notin ModuleNames("plotter_factory")
    THEN Raise("ImportError", "cannot import name", "RailPlotterFactory",
               <<"rail", "plotting", "plotter_factory">>)
    ELSE IF "RailPlotter" \notin ModuleNames("plotter")
    THEN Raise("ImportError", "cannot import name", "RailPlotter",
               <<"rail", "plotting", "plotter">>)
    ELSE IF ~({"get_plotter_dict", "get_plotter_names", "get_plotter_list_dict",
               "get_plotter_list_names"} \subseteq ClassAttributes("RailPlotterFactory"))
    THEN Raise("AttributeError", "type object has no attribute",
               "get_plotter_dict", <<"RailPlotterFactory">>)
    ELSE IF "write_plots" \notin ClassAttributes("RailPlotter")
    THEN Raise("AttributeError", "type object has no attribute",
               "write_plots", <<"RailPlotter">>)
    ELSE NoErr

\* the keyword arguments a dataset is passed as (`**val`)
Extracted(dataset) == [truth |-> "ndarray", pointEstimate |-> "ndarray"]

\* the datasets of a DatasetDict as iterate reads them
RECURSIVE AsData(_)
AsData(dataset_dict) ==
    IF dataset_dict = <<>> THEN <<>>
    ELSE <<[k |-> dataset_dict[1].k, v |-> Extracted(dataset_dict[1].v)]>>
         \o AsData(Tail(dataset_dict))

\* control.make_plots: [err, out, pf, df] (the getters create the registries)
MadePlots(done, pf, df) ==
    [err |-> done.err, out |-> done.out, pf |-> pf, df |-> df]

ControlMakePlots(pf, df, plotter_list_name, dataset_dict_name, lib) ==
    LET pf1 == PlotterEnsure(pf)
        df1 == DatasetEnsure(df)
    IN  IF ~DictHas(pf1.plotter_list_dict, plotter_list_name)
        THEN [err |-> Raise("KeyError", "PlotterList not found in RailPlotterFactory",
                            plotter_list_name, DictKeys(pf1.plotter_list_dict)),
              out |-> EmptyDict, pf |-> pf1, df |-> df]
        ELSE IF ~DictHas(df1.dataset_dicts, dataset_dict_name)
        THEN [err |-> Raise("KeyError", "DatasetDict not found in RailDatasetFactory",
                            dataset_dict_name, DictKeys(df1.dataset_dicts)),
              out |-> EmptyDict, pf |-> pf1, df |-> df1]
        ELSE MadePlots(Iterate(DictGet(pf1.plotter_list_dict, plotter_list_name),
                               AsData(DictGet(df1.dataset_dicts, dataset_dict_name)),
                               lib),
                       pf1, df1)

\* os.makedirs(outdir): [err, disk]
MakeDirs(d, outdir) ==
    IF outdir \in d.dirs
    THEN [err |-> Raise("FileExistsError", "File exists", outdir, <<>>), disk |-> d]
    ELSE IF ~d.creatable
    THEN [err |-> Raise("PermissionError", "Permission denied", outdir, <<>>),
          disk |-> d]
    ELSE [err |-> NoErr, disk |-> [d EXCEPT !.dirs = @ \cup {outdir}]]

\* os.path.join(outdir, f"{key}.{figtype}")
OutPath(outdir, key, figtype) == [dir |-> outdir, name |-> key \o <<".">> \o figtype]

\* val.savefig(out_path), failing when the environment makes it fail: [err, disk]
SaveFig(d, out_path, val, fails) ==
    IF out_path.dir \notin d.dirs
    THEN [err |-> Raise("FileNotFoundError", "No such file or directory",
                        out_path.dir, <<>>),
          disk |-> d]
    ELSE IF fails
    THEN [err |-> Raise("OSError", "raised by savefig", out_path.name, <<>>),
          disk |-> d]
    ELSE [err |-> NoErr, disk |-> [d EXCEPT !.files = DictSet(@, out_path, val)]]

\* the loop of save_plots going on after a figure that could not be written
RECURSIVE SaveAllSkipping(_, _, _, _, _, _)
SaveAllSkipping(items, outdir, figtype, d, fails, written) ==
    IF items = <<>> THEN [err |-> NoErr, disk |-> d, written |-> written]
    ELSE LET out_path == OutPath(outdir, items[1].k, figtype)
             saved == SaveFig(MakeDirs(d, outdir).disk, out_path, items[1].v,
                              fails = Len(written) + 1)
         IN SaveAllSkipping(Tail(items), outdir, figtype, saved.disk,
                            IF saved.err # NoErr THEN 0 ELSE fails,
                            IF saved.err # NoErr THEN written
                            ELSE Append(written, out_path))

\* the loop of save_plots: [err, disk, written] (fails: the position of the
\* figure whose savefig the environment makes fail, 0 for none; written: the
\* paths written, in order)
RECURSIVE SaveAll(_, _, _, _, _, _)
SaveAll(items, outdir, figtype, d, fails, written) ==
    IF items = <<>> THEN [err |-> NoErr, disk |-> d, written |-> written]
    ELSE LET out_path == OutPath(outdir, items[1].k, figtype)
             saved == SaveFig(MakeDirs(d, outdir).disk, out_path, items[1].v,
                              fails = Len(written) + 1)
         IN IF saved.err # NoErr
            THEN [err |-> saved.err, disk |-> saved.disk, written |-> written]
            ELSE SaveAll(Tail(items), outdir, figtype, saved.disk, fails,
                         Append(written, out_path))

\* RailPlotter.save_plots: [err, disk, written]
SavePlots(fig_dict, outdir, figtype, d, fails) ==
    SaveAll(fig_dict, outdir, figtype, d, fails, <<>>)

\* RailPlotGroup.__init__ (calls: how many times the group was called)
NewPlotGroup(plotter_list_name, dataset_dict_name, outdir, figtype) ==
    [plotter_list_name |-> plotter_list_name,
     dataset_dict_name |-> dataset_dict_name, outdir |-> outdir,
     figtype |-> figtype, plots |-> EmptyDict, calls |-> 0]

\* the figures of the n-th call of a group are new objects
NewFigures(d, n) ==
    [i \in 1..Len(d) |-> [k |-> d[i].k,
                          v |-> [d[i].v EXCEPT !.figure = <<n, @>>]]]

\* RailPlotGroup.__call__ once make_plots has returned or raised
SaveAndPurge(g, drawn, save, purge, written) ==
    LET called == [g EXCEPT !.calls = @ + 1, !.plots = written.plots]
    IN  IF drawn.err # NoErr
        THEN [err |-> drawn.err, group |-> [g EXCEPT !.calls = @ + 1],
              out |-> EmptyDict, drawn |-> EmptyDict, written |-> <<>>,
              pf |-> drawn.pf, df |-> drawn.df, disk |-> written.old]
        ELSE IF ~save
        THEN [err |-> NoErr, group |-> called, out |-> written.plots,
              drawn |-> written.drawn, written |-> <<>>,
              pf |-> drawn.pf, df |-> drawn.df, disk |-> written.old]
        ELSE IF written.err # NoErr
        THEN [err |-> written.err, group |-> called, out |-> EmptyDict,
              drawn |-> written.drawn, written |-> <<>>,
              pf |-> drawn.pf, df |-> drawn.df, disk |-> written.disk]
        ELSE IF purge
        THEN [err |-> NoErr, group |-> [called EXCEPT !.plots = EmptyDict],
              out |-> EmptyDict, drawn |-> written.drawn,
              written |-> DictKeys(written.plots),
              pf |-> drawn.pf, df |-> drawn.df, disk |-> written.disk]
        ELSE [err |-> NoErr, group |-> called, out |-> written.plots,
              drawn |-> written.drawn, written |-> DictKeys(written.plots),
              pf |-> drawn.pf, df |-> drawn.df, disk |-> written.disk]

\* write_plots(self._plots, self.outdir, self.figtype) on the figures of the
\* group merged with those just drawn: [err, disk, old, plots, drawn]
WritePlots(g, drawn, plots, d) ==
    [SavePlots(plots, g.outdir, g.figtype, d, 0)
       EXCEPT !.written = <<>>] @@ [old |-> d, plots |-> plots, drawn |-> drawn]

\* the figures of the group after self._plots.update(make_plots(...))
Updated(g, drawn) ==
    WritePlots(g, NewFigures(drawn.out, g.calls + 1),
               DictUpdate(g.plots, NewFigures(drawn.out, g.calls + 1)),
               drawn.disk)

\* RailPlotGroup.__call__: [err, group, out, drawn, written, pf, df, disk]
\* (drawn: what make_plots returned; written: the keys of the figures
\* write_plots has written)
CalledOn(g, drawn, save, purge) ==
    SaveAndPurge(g, drawn, save, purge, Updated(g, drawn))

PlotGroupCall(g, pf, df, save, purge, lib, d) ==
    CalledOn(g, ControlMakePlots(pf, df, g.plotter_list_name,
                                 g.dataset_dict_name, lib) @@ [disk |-> d],
             save, purge)

\* PlotterFactory.load_yaml on a whole file: [err, factory, classes]
RECURSIVE LoadPlotterYaml(_, _, _)
LoadPlotterRest(r, blocks) ==
    IF r.err # NoErr THEN r ELSE LoadPlotterYaml(r.factory, r.classes, blocks)

LoadPlotterYaml(f, classes, blocks) ==
    IF blocks = <<>> THEN [err |-> NoErr, factory |-> f, classes |-> classes]
    ELSE LoadPlotterRest(PlotterLoadBlock(f, classes, Head(blocks)), Tail(blocks))

\* RailDatasetFactory.load_yaml on a whole file: [err, factory, classes]
RECURSIVE LoadDatasetYaml(_, _, _)
LoadDatasetRest(r, blocks) ==
    IF r.err # NoErr THEN r ELSE LoadDatasetYaml(r.factory, r.classes, blocks)

LoadDatasetYaml(f, classes, blocks) ==
    IF blocks = <<>> THEN [err |-> NoErr, factory |-> f, classes |-> classes]
    ELSE LoadDatasetRest(DatasetLoadBlock(f, classes, Head(blocks)), Tail(blocks))

\* an item of PlotGroups: its key, and the keys and values of its mapping
GroupItem(kind, has, name, plotter_list_name, dataset_dict_name) ==
    [kind |-> kind, has |-> has, name |-> name,
     plotter_list_name |-> plotter_list_name,
     dataset_dict_name |-> dataset_dict_name]

\* an item of PlotGroups that gives outdir and figtype too
GroupItemTo(has, name, plotter_list_name, dataset_dict_name, outdir, figtype) ==
    [kind |-> "PlotGroup", has |-> has \cup {"outdir", "figtype"}, name |-> name,
     plotter_list_name |-> plotter_list_name,
     dataset_dict_name |-> dataset_dict_name, outdir |-> outdir,
     figtype |-> figtype]

\* the for loop of RailPlotGroup.load_yaml: [err, out]
RECURSIVE LoadGroups(_, _)
LoadGroups(group_data, out_dict) ==
    IF group_data = <<>> THEN [err |-> NoErr, out |-> out_dict]
    ELSE LET group_item == Head(group_data)
         IN IF group_item.kind # "PlotGroup"
            THEN [err |-> Raise("KeyError", "expected PlotGroup yaml block.",
                                "PlotGroup", <<group_item.kind>>),
                  out |-> out_dict]
            ELSE IF "name" \notin group_item.has
            THEN [err |-> Raise("KeyError",
                                "PlotGroup yaml block does not contain name for plot group:",
                                "name", <<>>),
                  out |-> out_dict]
            ELSE IF ~({"plotter_list_name", "dataset_dict_name"}
                        \subseteq group_item.has)
            THEN [err |-> Raise("TypeError",
                                "__init__() missing required positional argument",
                                "", <<>>),
                  out |-> out_dict]
            ELSE LoadGroups(Tail(group_data),
                            DictSet(out_dict, group_item.name,
                                    NewPlotGroup(
                                      group_item.plotter_list_name,
                                      group_item.dataset_dict_name,
                                      IF "outdir" \in group_item.has
                                      THEN group_item.outdir ELSE ".",
                                      IF "figtype" \in group_item.has
                                      THEN group_item.figtype ELSE <<"png">>)))

\* RailPlotGroup.load_yaml from load_dataset_yaml on
LoadedDatasets(plotted, ld, group_data) ==
    LET both == [plotted EXCEPT !.df = ld.factory, !.extractor_classes = ld.classes]
        groups == LoadGroups(group_data, EmptyDict)
    IN  IF ld.err # NoErr THEN [both EXCEPT !.err = ld.err]
        ELSE [both EXCEPT !.err = groups.err,
                          !.out = IF groups.err = NoErr THEN groups.out
                                  ELSE EmptyDict]

\* RailPlotGroup.load_yaml from load_plotter_yaml on
LoadedPlotters(stay, lp, df, eclasses, all_data) ==
    LET plotted == [stay EXCEPT !.pf = lp.factory, !.plotter_classes = lp.classes]
    IN  IF lp.err # NoErr THEN [plotted EXCEPT !.err = lp.err]
        ELSE IF "DatasetYaml" \notin all_data.has
        THEN [plotted EXCEPT !.err =
                Raise("KeyError", "yaml file does not contain DatasetYaml key",
                      "DatasetYaml", <<>>)]
        ELSE IF "PlotGroups" \notin all_data.has
        THEN [plotted EXCEPT !.err =
                Raise("KeyError", "yaml file does not contain PlotGroups key",
                      "PlotGroups", <<>>)]
        ELSE LoadedDatasets(plotted,
                            LoadDatasetYaml(DatasetEnsure(df), eclasses,
                                            all_data.dataset_yaml),
                            all_data.group_data)

\* RailPlotGroup.load_yaml: [err, out, pf, df, plotter_classes, extractor_classes]
ControlLoadYaml(pf, df, pclasses, eclasses, all_data) ==
    LET stay == [err |-> NoErr, out |-> EmptyDict, pf |-> pf, df |-> df,
                 plotter_classes |-> pclasses, extractor_classes |-> eclasses]
    IN  IF "PlotterYaml" \notin all_data.has
        THEN [stay EXCEPT !.err = Raise("KeyError",
                                        "yaml file does not contain PlotterYaml key",
                                        "PlotterYaml", <<>>)]
        ELSE LoadedPlotters(stay,
                            LoadPlotterYaml(PlotterEnsure(pf), pclasses,
                                            all_data.plotter_yaml),
                            df, eclasses, all_data)

\* list.remove
RemoveFirst(list, x) ==
    LET i == CHOOSE i \in 1..Len(list) :
                 list[i] = x /\ \A j \in 1..(i - 1) : list[j] # x
    IN  SubSeq(list, 1, i - 1) \o SubSeq(list, i + 1, Len(list))

\* the first for loop of run: [err, list]
RECURSIVE RemoveAll(_, _)
RemoveAll(include_groups, exclude_groups) ==
    IF exclude_groups = <<>> THEN [err |-> NoErr, list |-> include_groups]
    ELSE IF \A i \in 1..Len(include_groups) : include_groups[i] # Head(exclude_groups)
    THEN [err |-> Raise("ValueError", "list.remove(x): x not in list",
                        Head(exclude_groups), include_groups),
          list |-> include_groups]
    ELSE RemoveAll(RemoveFirst(include_groups, Head(exclude_groups)),
                   Tail(exclude_groups))

\* the second for loop of run: [err, out, ran, outs, groups, pf, df, disk]
\* (ran: the names of the groups called, in order; outs: what each returned)
RECURSIVE RunGroups(_, _, _, _, _, _, _, _, _, _, _)
RunGroupsOn(group_dict, include_groups, done, save, purge, lib, out_dict, ran, outs) ==
    LET group_ == Head(include_groups)
        after == DictSet(group_dict, group_, done.group)
    IN  IF done.err # NoErr
        THEN [err |-> done.err, out |-> out_dict, ran |-> Append(ran, group_),
              outs |-> outs, groups |-> after, pf |-> done.pf, df |-> done.df,
              disk |-> done.disk]
        ELSE RunGroups(after, Tail(include_groups), done.pf, done.df,
                       save, purge, lib, DictUpdate(out_dict, done.out),
                       Append(ran, group_), Append(outs, done.out), done.disk)

RunGroups(group_dict, include_groups, pf, df, save, purge, lib, out_dict, ran, outs, d) ==
    IF include_groups = <<>>
    THEN [err |-> NoErr, out |-> out_dict, ran |-> ran, outs |-> outs,
          groups |-> group_dict, pf |-> pf, df |-> df, disk |-> d]
    ELSE IF ~DictHas(group_dict, Head(include_groups))
    THEN [err |-> Raise("KeyError", "", Head(include_groups), DictKeys(group_dict)),
          out |-> out_dict, ran |-> ran, outs |-> outs, groups |-> group_dict,
          pf |-> pf, df |-> df, disk |-> d]
    ELSE RunGroupsOn(group_dict, include_groups,
                     PlotGroupCall(DictGet(group_dict, Head(include_groups)),
                                   pf, df, save, purge, lib, d),
                     save, purge, lib, out_dict, ran, outs)

\* an argument of run: None, or a list
None == [tag |-> "None"]

List(list) == [tag |-> "list", list |-> list]

\* the result of run when its second loop is over
Ran(stay, done) ==
    [stay EXCEPT !.err = done.err, !.out = done.out, !.ran = done.ran,
                 !.outs = done.outs, !.groups = done.groups,
                 !.pf = done.pf, !.df = done.df, !.disk = done.disk]

\* run once load_yaml has returned or raised
RunLoaded(loaded, include_groups, exclude_groups, save_plots, purge_plots, lib, d) ==
    LET stay == [err |-> loaded.err, out |-> EmptyDict, ran |-> <<>>,
                 outs |-> <<>>, groups |-> loaded.out, pf |-> loaded.pf,
                 df |-> loaded.df, disk |-> d,
                 plotter_classes |-> loaded.plotter_classes,
                 extractor_classes |-> loaded.extractor_classes]
        included == IF include_groups = None \/ include_groups.list = <<>>
                    THEN DictKeys(loaded.out) ELSE include_groups.list
        excluded == IF exclude_groups = None \/ exclude_groups.list = <<>>
                    THEN <<>> ELSE exclude_groups.list
        kept == RemoveAll(included, excluded)
    IN  IF loaded.err # NoErr THEN stay
        ELSE IF kept.err # NoErr THEN [stay EXCEPT !.err = kept.err]
        ELSE Ran(stay, RunGroups(loaded.out, kept.list, loaded.pf, loaded.df,
                                 save_plots, purge_plots, lib, EmptyDict, <<>>,
                                 <<>>, d))

\* control.run: [err, out, ran, outs, groups, pf, df, disk, plotter_classes,
\* extractor_classes]
ControlRun(pf, df, pcls, ecls, all_data, include, exclude, save, purge, lib, d) ==
    RunLoaded(ControlLoadYaml(pf, df, pcls, ecls, all_data),
              include, exclude, save, purge, lib, d)

\* the calls of RailPlotter the process may be about to make (lib: whether
\* numpy and matplotlib raise on a value that is no array)
ConstructCalls ==
    {[call |-> "RailPlotter", name |-> name, cls |-> cls, kwargs |-> kwargs] :
        name \in PlotNames, cls \in {Hist2D, Accuracies, Client}, kwargs \in Kwargs}

InvokeCalls ==
    {[call |-> "__call__", plotter |-> plotter, prefix |-> prefix,
      kwargs |-> kwargs, lib |-> lib] :
        plotter \in Plotters, prefix \in Prefixes, kwargs \in Data,
        lib \in {"draws", "raises"}}

IterateCalls ==
    {[call |-> "iterate", plotters |-> plotters, data_dict |-> data_dict,
      lib |-> lib] :
        plotters \in PlotterLists, data_dict \in DataDicts,
        lib \in {"draws", "raises"}}

\* the file of plotters, the file of datasets and the top-level files
PlotterYaml ==
    <<PlotterBlock({"name", "class_name"}, <<"a">>, Append(PzPlotters, Hist2D), NoCfg),
      PlotterBlock({"name", "class_name"}, <<"b">>, Append(PzPlotters, Profile), NoCfg),
      PlotterListBlock({"name", "plotters"}, <<"l">>, <<<<"a">>, <<"b">>>>),
      PlotterListBlock({"name", "plotters"}, <<"m">>, <<<<"a">>>>)>>

DatasetYaml ==
    <<ProjectBlock({"name", "yaml_file"}, "project_name", "one.yaml"),
      DatasetBlock({"name", "extractor"}, <<"c">>,
                   Append(PzDataExtraction, PointEstimate),
                   [project |-> "project_name", selection |-> "gold"]),
      DatasetBlock({"name", "extractor"}, <<"d">>,
                   Append(PzDataExtraction, PointEstimate),
                   [project |-> "project_name", selection |-> "blend"]),
      DatasetDictBlock({"name", "datasets"}, <<"s">>, <<<<"c">>, <<"d">>>>),
      DatasetDictBlock({"name", "datasets"}, <<"t">>, <<<<"d">>>>)>>

GroupKeys == {"name", "plotter_list_name", "dataset_dict_name"}

TopKeys == {"PlotterYaml", "DatasetYaml", "PlotGroups"}

TopYaml(has, group_data) ==
    [has |-> has, plotter_yaml |-> PlotterYaml, dataset_yaml |-> DatasetYaml,
     group_data |-> group_data]

\* the file of the bindings "A" and "B"
GoodYaml ==
    TopYaml(TopKeys, <<GroupItem("PlotGroup", GroupKeys, "A", <<"l">>, <<"s">>),
                       GroupItemTo(GroupKeys, "B", <<"m">>, <<"t">>, "out", <<"pdf">>)>>)

TopYamls ==
    {GoodYaml,
     TopYaml(TopKeys, <<GroupItem("PlotGroup", GroupKeys, "A", <<"l">>, <<"s">>)>>),
     TopYaml(TopKeys, <<GroupItem("PlotGroup", GroupKeys, "A", <<"l">>, <<"u">>)>>),
     TopYaml(TopKeys, <<GroupItem("PlotGroup", GroupKeys, "B", <<"m">>, <<"t">>),
                        GroupItem("PlotGroup", GroupKeys, "A", <<"l">>, <<"u">>),
                        GroupItem("PlotGroup", GroupKeys, "C", <<"l">>, <<"s">>)>>),
     TopYaml(TopKeys, <<GroupItem("PlotGroup", GroupKeys \ {"name"}, "", <<"l">>,
                                  <<"s">>)>>),
     TopYaml(TopKeys, <<GroupItem("Other", GroupKeys, "A", <<"l">>, <<"s">>)>>),
     TopYaml(TopKeys \ {"PlotGroups"}, <<>>),
     TopYaml(TopKeys \ {"DatasetYaml"},
             <<GroupItem("PlotGroup", GroupKeys, "A", <<"l">>, <<"s">>)>>),
     TopYaml({"PlotterYaml"}, <<>>),
     TopYaml(TopKeys \ {"PlotterYaml"}, <<>>)}

IncludeLists ==
    {None} \cup {List(l) : l \in {<<>>, <<"A">>, <<"B">>, <<"A", "B">>,
                                   <<"B", "A">>, <<"A", "A">>, <<"C">>}}

ExcludeLists ==
    {None} \cup {List(l) : l \in {<<>>, <<"A">>, <<"B">>, <<"C">>, <<"A", "B">>}}

\* the arguments of the calls of a group: save and purge
Flags == {[save |-> save, purge |-> purge] : save, purge \in BOOLEAN}

\* a script that loads a top-level file and calls one of its groups once or twice
GroupCalls ==
    {[call |-> "RailPlotGroup", yaml |-> yaml, name |-> name, todo |-> todo,
      lib |-> lib] :
        yaml \in TopYamls, name \in {"A", "B"},
        todo \in {<<f>> : f \in Flags} \cup {<<f, g>> : f, g \in Flags},
        lib \in {"draws", "raises"}}

\* (times: how many times the script calls run, with the same arguments;
\* nth: which of these calls is next)
RunCalls ==
    {[call |-> "run", yaml |-> yaml, include_groups |-> include_groups,
      exclude_groups |-> exclude_groups, save_plots |-> flags.save,
      purge_plots |-> flags.purge, lib |-> lib, times |-> times, nth |-> 1] :
        yaml \in TopYamls, include_groups \in IncludeLists,
        exclude_groups \in ExcludeLists, flags \in Flags,
        lib \in {"draws", "raises"}, times \in {1, 2}}

\* a figure, and the mappings of figures save_plots is called on
Figure(n) == [figure |-> n]

FigDicts ==
    {<<>>,
     <<[k |-> <<"x">>, v |-> Figure(1)]>>,
     <<[k |-> <<"x">>, v |-> Figure(1)], [k |-> <<"y">>, v |-> Figure(2)]>>,
     <<[k |-> <<"y">>, v |-> Figure(2)], [k |-> <<"x">>, v |-> Figure(1)]>>,
     <<[k |-> <<"x">>, v |-> Figure(1)], [k |-> <<"y">>, v |-> Figure(2)],
       [k |-> <<"z">>, v |-> Figure(3)]>>}

\* the positions of the figure whose savefig fails (0: none fails)
Faults == {0, 1, 2, 3}

SaveCalls ==
    {[call |-> "save_plots", fig_dict |-> fig_dict, outdir |-> outdir,
      figtype |-> figtype, fails |-> fails] :
        fig_dict \in FigDicts, outdir \in {"out", "new"},
        figtype \in {<<"png">>, <<"pdf">>}, fails \in Faults}

\* the file systems save_plots may find: the directory "out" there or not,
\* holding an older x.png or not
Disks ==
    {[dirs |-> {"."}, creatable |-> c, files |-> <<>>] : c \in BOOLEAN}
    \cup {[dirs |-> {".", "out"}, creatable |-> c, files |-> f] :
            c \in BOOLEAN,
            f \in {<<>>, <<[k |-> OutPath("out", <<"x">>, <<"png">>),
                            v |-> Figure(0)]>>}}

\* the calls of get_plotter_class and load_plotter_class: a class of
\* pz_plotters, a class no module defines, a class the script defines, a module
\* that does not exist, a name without a module
ClassCalls ==
    {[call |-> "get_plotter_class", name |-> name] :
        name \in {Hist2D, Profile, "Missing", "Mine"}}
    \cup {[call |-> "load_plotter_class", class_name |-> class_name] :
            class_name \in {Append(PzPlotters, Hist2D), Append(PzPlotters, "Missing"),
                            Append(PzPlotters, "Mine"), <<Hist2D>>, <<"Mine">>,
                            <<"rail", "plotting", "nowhere", Hist2D>>,
                            <<"nowhere", "Mine">>}}

\* plotter_classes before the call: nothing imported yet, pz_plotters
\* imported, a subclass defined by the script
ClassMaps ==
    {EmptyDict, RegisterAll(EmptyDict, ModuleClasses(PzPlotters)),
     RegisterAll(EmptyDict, <<"Mine">>),
     RegisterAll(RegisterAll(EmptyDict, <<"Mine">>), ModuleClasses(PzPlotters))}

\* the calls of load_yaml of the two factories on a whole file: the files of
\* PlotterYaml and DatasetYaml, files that declare the same names in another
\* order, a file that names a member before it is defined, a file that
\* defines a name twice, an empty file
LoadCalls ==
    {[call |-> "PlotterFactory.load_yaml", blocks |-> blocks] :
        blocks \in {PlotterYaml, SubSeq(PlotterYaml, 2, 2), <<>>,
                    <<PlotterYaml[2], PlotterYaml[1],
                      PlotterListBlock({"name", "plotters"}, <<"m">>,
                                       <<<<"b">>, <<"a">>, <<"b">>>>),
                      PlotterListBlock({"name", "plotters"}, <<"l">>, <<<<"b">>>>)>>,
                    <<PlotterYaml[3], PlotterYaml[1], PlotterYaml[2]>>,
                    <<PlotterYaml[1], PlotterYaml[1]>>}}
    \cup {[call |-> "RailDatasetFactory.load_yaml", blocks |-> blocks] :
            blocks \in {DatasetYaml, SubSeq(DatasetYaml, 1, 2), <<>>,
                        <<DatasetYaml[1], DatasetYaml[3], DatasetYaml[2],
                          DatasetDictBlock({"name", "datasets"}, <<"t">>,
                                           <<<<"d">>, <<"c">>>>),
                          DatasetDictBlock({"name", "datasets"}, <<"s">>,
                                           <<<<"c">>>>)>>,
                        <<DatasetYaml[1], DatasetYaml[4], DatasetYaml[2]>>,
                        <<DatasetYaml[1], DatasetYaml[2], DatasetYaml[2]>>}}

\* the registries untouched, and one call of RailPlotter, of a factory or of
\* rail.plotting.control about to be made (or none)
InitPlot ==
    /\ args \in ConstructCalls \cup InvokeCalls \cup IterateCalls
                \cup GroupCalls \cup RunCalls \cup SaveCalls \cup ClassCalls
                \cup LoadCalls \cup {NoValue}
    /\ plotterFactory \in IF args \in LoadCalls
                           THEN {NoInstance, NewPlotterFactory} ELSE {NoInstance}
    /\ datasetFactory \in IF args \in LoadCalls
                           THEN {NoInstance, NewDatasetFactory} ELSE {NoInstance}
    /\ plotter_classes \in IF args \in ClassCalls \cup LoadCalls
                            THEN ClassMaps ELSE {EmptyDict}
    /\ extractor_classes = EmptyDict
    /\ pc = IF args = NoValue THEN "idle" ELSE "call"
    /\ pos = 0
    /\ read = 0
    /\ made = [plotter |-> 0, dataset |-> 0]
    /\ err = NoErr
    /\ ret = NoValue
    /\ base = NoValue
    /\ log = <<>>
    /\ ahead = <<>>
    /\ group = NoValue
    /\ disk \in IF args \in SaveCalls THEN Disks ELSE {NoDisk}

\* plotter_class(name, **kwargs)
Construct ==
    /\ pc = "call"
    /\ args.call = "RailPlotter"
    /\ LET made_ == PlotterInit(args.name, args.cls, OptionsOf(args.cls), args.kwargs)
       IN /\ err' = made_.err
          /\ ret' = IF made_.err # NoErr THEN NoValue
                    ELSE [call |-> "RailPlotter", value |-> made_.plotter]
    /\ pc' = "idle"
    /\ UNCHANGED <<plotterFactory, datasetFactory, plotter_classes,
                   extractor_classes, pos, read, made, base, log, ahead,
                   args, group, disk>>

\* plotter(prefix, **kwargs)
Invoke ==
    /\ pc = "call"
    /\ args.call = "__call__"
    /\ LET called == Call(args.plotter, args.prefix, args.kwargs, args.lib, 1)
       IN /\ err' = called.err
          /\ ret' = [call |-> "__call__", value |-> called.out, ran |-> called.ran]
    /\ pc' = "idle"
    /\ UNCHANGED <<plotterFactory, datasetFactory, plotter_classes,
                   extractor_classes, pos, read, made, base, log, ahead,
                   args, group, disk>>

\* RailPlotter.iterate(plotters, data_dict)
FanOut ==
    /\ pc = "call"
    /\ args.call = "iterate"
    /\ LET done == Iterate(args.plotters, args.data_dict, args.lib)
       IN /\ err' = done.err
          /\ ret' = [call |-> "iterate", value |-> done.out, calls |-> done.calls]
    /\ pc' = "idle"
    /\ UNCHANGED <<plotterFactory, datasetFactory, plotter_classes,
                   extractor_classes, pos, read, made, base, log, ahead,
                   args, group, disk>>

\* the dict load_yaml returned, as the script holds it
Held(group_dict) == [tag |-> "dict", dict |-> group_dict]

\* the groups a script has at hand, loading them if it has none yet
Groups(pf, df, pclasses, eclasses, g, all_data) ==
    IF g = NoValue THEN ControlLoadYaml(pf, df, pclasses, eclasses, all_data)
    ELSE [err |-> NoErr, out |-> g.dict, pf |-> pf, df |-> df,
          plotter_classes |-> pclasses, extractor_classes |-> eclasses]

\* the process after the call of a group
Called(loaded, done, flags) ==
    /\ err' = done.err
    /\ ret' = [call |-> "RailPlotGroup", value |-> done.out,
               drawn |-> done.drawn, written |-> done.written, flags |-> flags]
    /\ pc' = IF done.err = NoErr /\ Len(args.todo) > 1 THEN "call" ELSE "idle"
    /\ plotterFactory' = done.pf
    /\ datasetFactory' = done.df
    /\ group' = Held(DictSet(loaded.out, args.name, done.group))
    /\ args' = [args EXCEPT !.todo = Tail(@)]
    /\ disk' = done.disk

\* the process once the script has its groups, or failed to load them
GroupsLoaded(loaded) ==
    /\ plotter_classes' = loaded.plotter_classes
    /\ extractor_classes' = loaded.extractor_classes
    /\ IF loaded.err # NoErr \/ ~DictHas(loaded.out, args.name)
       THEN /\ err' = IF loaded.err # NoErr THEN loaded.err
                      ELSE Raise("KeyError", "", args.name, DictKeys(loaded.out))
            /\ ret' = NoValue
            /\ pc' = "idle"
            /\ plotterFactory' = loaded.pf
            /\ datasetFactory' = loaded.df
            /\ group' = IF loaded.err = NoErr THEN Held(loaded.out) ELSE group
            /\ args' = args
            /\ disk' = disk
       ELSE Called(loaded,
                   PlotGroupCall(DictGet(loaded.out, args.name), loaded.pf,
                                 loaded.df, Head(args.todo).save,
                                 Head(args.todo).purge, args.lib, disk),
                   Head(args.todo))

\* a script's next statements, up to and including its next call of the group:
\* at first `from rail.plotting import control`,
\* `control.RailPlotGroup.load_yaml(yaml)[name](save, purge)`, then
\* the group called again
CallPlotGroup ==
    /\ pc = "call"
    /\ args.call = "RailPlotGroup"
    /\ IF ImportControl # NoErr
       THEN /\ err' = ImportControl
            /\ ret' = NoValue
            /\ pc' = "idle"
            /\ UNCHANGED <<plotterFactory, datasetFactory, plotter_classes,
                           extractor_classes, args, group, disk>>
       ELSE GroupsLoaded(Groups(plotterFactory, datasetFactory, plotter_classes,
                                extractor_classes, group, args.yaml))
    /\ UNCHANGED <<pos, read, made, base, log, ahead>>

\* the process after run
Returned(done) ==
    /\ err' = done.err
    /\ ret' = [call |-> "run", returned |-> done.err = NoErr,
               value |-> IF done.err = NoErr THEN done.out ELSE EmptyDict,
               ran |-> done.ran, outs |-> done.outs]
    /\ plotterFactory' = done.pf
    /\ datasetFactory' = done.df
    /\ plotter_classes' = done.plotter_classes
    /\ extractor_classes' = done.extractor_classes
    /\ group' = Held(done.groups)
    /\ disk' = done.disk

\* `from rail.plotting import control` and
\* `control.run(yaml_file, include_groups, exclude_groups, save_plots, purge_plots)`,
\* whose exception the script catches when it is to call run again
Run ==
    /\ pc = "call"
    /\ args.call = "run"
    /\ IF ImportControl # NoErr
       THEN /\ err' = ImportControl
            /\ ret' = NoValue
            /\ UNCHANGED <<plotterFactory, datasetFactory, plotter_classes,
                           extractor_classes, group, disk>>
       ELSE Returned(ControlRun(plotterFactory, datasetFactory, plotter_classes,
                                extractor_classes, args.yaml, args.include_groups,
                                args.exclude_groups, args.save_plots,
                                args.purge_plots, args.lib, disk))
    /\ pc' = IF args.nth < args.times THEN "call" ELSE "idle"
    /\ args' = [args EXCEPT !.nth = @ + 1]
    /\ UNCHANGED <<pos, read, made, base, log, ahead>>

\* the process after save_plots
Saved(done) ==
    /\ err' = done.err
    /\ ret' = [call |-> "save_plots", written |-> done.written]
    /\ disk' = done.disk

\* RailPlotter.save_plots(fig_dict, outdir, figtype)
Save ==
    /\ pc = "call"
    /\ args.call = "save_plots"
    /\ Saved(SavePlots(args.fig_dict, args.outdir, args.figtype, disk, args.fails))
    /\ pc' = "idle"
    /\ UNCHANGED <<plotterFactory, datasetFactory, plotter_classes,
                   extractor_classes, pos, read, made, base, log, ahead,
                   args, group>>

\* RailPlotter.get_plotter_class(name)
GetClass ==
    /\ pc = "call"
    /\ args.call = "get_plotter_class"
    /\ LET got == GetPlotterClass(plotter_classes, args.name)
       IN /\ err' = got.err
          /\ ret' = [call |-> "get_plotter_class", value |-> got.cls]
    /\ pc' = "idle"
    /\ UNCHANGED <<plotterFactory, datasetFactory, plotter_classes,
                   extractor_classes, pos, read, made, base, log, ahead,
                   args, group, disk>>

\* RailPlotter.load_plotter_class(class_name)
LoadClass ==
    /\ pc = "call"
    /\ args.call = "load_plotter_class"
    /\ LET loaded == LoadPlotterClass(plotter_classes, args.class_name)
       IN /\ err' = loaded.err
          /\ ret' = [call |-> "load_plotter_class", value |-> loaded.cls]
          /\ plotter_classes' = loaded.classes
    /\ pc' = "idle"
    /\ UNCHANGED <<plotterFactory, datasetFactory, extractor_classes, pos, read,
                   made, base, log, ahead, args, group, disk>>

\* PlotterFactory.load_yaml(yaml_file)
LoadPlotters ==
    /\ pc = "call"
    /\ args.call = "PlotterFactory.load_yaml"
    /\ LET loaded == LoadPlotterYaml(PlotterEnsure(plotterFactory),
                                     plotter_classes, args.blocks)
       IN /\ err' = loaded.err
          /\ plotterFactory' = loaded.factory
          /\ plotter_classes' = loaded.classes
    /\ ret' = NoValue
    /\ pc' = "idle"
    /\ UNCHANGED <<datasetFactory, extractor_classes, pos, read, made, base, log,
                   ahead, args, group, disk>>

\* RailDatasetFactory.load_yaml(yaml_file)
LoadDatasets ==
    /\ pc = "call"
    /\ args.call = "RailDatasetFactory.load_yaml"
    /\ LET loaded == LoadDatasetYaml(DatasetEnsure(datasetFactory),
                                     extractor_classes, args.blocks)
       IN /\ err' = loaded.err
          /\ datasetFactory' = loaded.factory
          /\ extractor_classes' = loaded.classes
    /\ ret' = NoValue
    /\ pc' = "idle"
    /\ UNCHANGED <<plotterFactory, plotter_classes, pos, read, made, base, log,
                   ahead, args, group, disk>>

NextPlot ==
    \/ Construct
    \/ Invoke
    \/ FanOut
    \/ CallPlotGroup
    \/ Run
    \/ Save
    \/ GetClass
    \/ LoadClass
    \/ LoadPlotters
    \/ LoadDatasets

SpecPlot == InitPlot /\ [][NextPlot]_vars

----------------------------------------------------------------------------
(* The spec's error taxonomy, read off the exceptions the code raises *)

IsDuplicateNameError(e) ==
    /\ e.type = "KeyError"
    /\ e.msg \in {"Plotter is already defined", "PlotterList is already defined",
                  "Dataset is already defined", "DatasetDict is already defined"}

IsUnresolvedReferenceError(e) ==
    /\ e.type = "KeyError"
    /\ e.msg \in {"RailPlotter used in PlotterList is not found",
                  "Dataset used in DatasetList is not found"}

IsSchemaError(e) ==
    /\ e.type = "KeyError"
    /\ \/ e.msg \in {"Plotter yaml block does not contain name for plotter",
                     "PlotterList yaml block does not contain name for plotter",
                     "PlotterList yaml block does not contain plotter",
                     "Dataset yaml block does not contain name for dataset",
                     "Dataset yaml block does not contain extractor for dataset",
                     "DatasetList yaml block does not contain name for dataset",
                     "DatasetList yaml block does not contain dataset",
                     "Project yaml block does not contain name for project",
                     "Project yaml block does not contain yaml_file",
                     "Expecting one of"}
       \/ e.msg = "" /\ e.key = "class_name"

IsNotFoundError(e) ==
    /\ e.type = "KeyError"
    /\ e.msg \in {"Plotter not found in RailPlotterFactory",
                  "PlotterList not found in RailPlotterFactory",
                  "Dataset not found in RailDatasetFactory",
                  "DatasetList not found in RailDatasetFactory",
                  "Could not find project"}

\* the three maps of either registry
ItemMap(f) ==
    IF f = NoInstance \/ f = NoValue THEN EmptyDict
    ELSE IF "plotter_dict" \in DOMAIN f THEN f.plotter_dict ELSE f.datasets

GroupMap(f) ==
    IF f = NoInstance \/ f = NoValue THEN EmptyDict
    ELSE IF "plotter_dict" \in DOMAIN f THEN f.plotter_list_dict ELSE f.dataset_dicts

ContextMap(f) ==
    IF f = NoInstance \/ f = NoValue THEN EmptyDict
    ELSE IF "plotter_dict" \in DOMAIN f THEN EmptyDict ELSE f.projects

IsItemBlock(b) == b.kind \in {"Plotter", "Dataset"}
IsGroupBlock(b) == b.kind \in {"PlotterList", "DatasetDict"}
IsContextBlock(b) == b.kind = "Project"

\* the members of a Group block that the Item map does not hold
Missing(items, b) ==
    {i \in 1..Len(b.members) : ~DictHas(items, b.members[i])}

FirstMissing(items, b) ==
    b.members[CHOOSE i \in Missing(items, b) : \A j \in Missing(items, b) : i <= j]

\* a Group block with its name and its member list
WellFormedGroup(b) ==
    /\ IsGroupBlock(b)
    /\ "name" \in b.has
    /\ ("plotters" \in b.has \/ "datasets" \in b.has)

----------------------------------------------------------------------------
(* C1 *)

C1_Step(f, f2, b) ==
    (IsItemBlock(b) /\ "name" \in b.has /\ DictHas(ItemMap(f), b.name))
    => /\ err' # NoErr
       /\ pc' = "idle"
       /\ ItemMap(f2) = ItemMap(f)
       /\ (b.kind = "Dataset" => "extractor" \in b.has)
            => (IsDuplicateNameError(err') /\ err'.key = b.name)

----------------------------------------------------------------------------
(* C2 *)

C2_Step(f, f2, b) ==
    (WellFormedGroup(b) /\ ~DictHas(GroupMap(f), b.name)
        /\ Missing(ItemMap(f), b) # {})
    => /\ IsUnresolvedReferenceError(err')
       /\ err'.key \in {b.members[i] : i \in Missing(ItemMap(f), b)}
       /\ err'.known = DictKeys(ItemMap(f))
       /\ pc' = "idle"
       /\ ~DictHas(GroupMap(f2), b.name)

\* C2: a Group block (PlotterList or DatasetDict) of a name not yet in the Group
\* map that lists a member absent from the Item map fails with the
\* unresolved-reference error, which names a missing member and the keys of the
\* Item map, and no Group is registered under the block's name.
C2_UnresolvedMember ==
    [][/\ \A b \in PlotterBlocks :
            PlotterLoadStep(b) => C2_Step(plotterFactory, plotterFactory', b)
       /\ \A b \in DatasetBlocks :
            DatasetLoadStep(b) => C2_Step(datasetFactory, datasetFactory', b)]_vars

\* the same, of the plotter registry alone
C2_UnresolvedPlotter ==
    [][\A b \in PlotterBlocks :
          PlotterLoadStep(b) => C2_Step(plotterFactory, plotterFactory', b)]_vars

----------------------------------------------------------------------------
(* C3 *)

\* the registry the running or last load is filling
Loaded ==
    IF base = NoValue THEN NoValue
    ELSE IF "plotter_dict" \in DOMAIN base THEN plotterFactory ELSE datasetFactory

\* keys of a dict after the names are bound in it, in that order
RECURSIVE Bound(_, _)
Bound(keys, names) ==
    IF names = <<>> THEN keys
    ELSE Bound(IF \E i \in 1..Len(keys) : keys[i] = Head(names)
               THEN keys ELSE Append(keys, Head(names)),
               Tail(names))

\* the names of the blocks of the given kinds that the load has processed
RECURSIVE Logged(_, _)
Logged(entries, kinds) ==
    IF entries = <<>> THEN <<>>
    ELSE IF Head(entries).kind \in kinds
         THEN <<Head(entries).name>> \o Logged(Tail(entries), kinds)
         ELSE Logged(Tail(entries), kinds)

\* C3: a load takes the blocks in file order and is not transactional.  While it
\* runs and after it ended, the Item, Group and Context maps hold what they held
\* before the load plus the names of the blocks processed so far, in order;
\* when block k fails the load is over at once (k-1 blocks were processed, no
\* later one is) and the maps keep what blocks 1..k-1 registered.
C3_NonTransactional ==
    base # NoValue =>
        /\ err # NoErr => pc = "idle"
        /\ pos = Len(log) + (IF err # NoErr THEN 1 ELSE 0)
        /\ DictKeys(ItemMap(Loaded)) =
             Bound(DictKeys(ItemMap(base)), Logged(log, {"Plotter", "Dataset"}))
        /\ DictKeys(GroupMap(Loaded)) =
             Bound(DictKeys(GroupMap(base)), Logged(log, {"PlotterList", "DatasetDict"}))
        /\ DictKeys(ContextMap(Loaded)) =
             Bound(DictKeys(ContextMap(base)), Logged(log, {"Project"}))

\* a load on a registry that held an Item has failed after its first block,
\* which registered an Item, with a block of the source still unread
C3_Witness ==
    /\ pc = "idle"
    /\ err # NoErr
    /\ base # NoValue
    /\ ItemMap(base) # EmptyDict
    /\ Len(log) >= 1
    /\ ItemMap(Loaded) # ItemMap(base)
    /\ ahead # <<>>

----------------------------------------------------------------------------
(* C4 *)

C4_Step(f, f2, b) ==
    WellFormedGroup(b) =>
        /\ Missing(ItemMap(f), b) # {}
             => (err' # NoErr /\ pc' = "idle" /\ GroupMap(f2) = GroupMap(f))
        /\ (err' = NoErr \/ GroupMap(f2) # GroupMap(f))
             => Missing(ItemMap(f), b) = {}

\* C4: there are no forward references.  A Group block one of whose members is
\* not in the Item map when the block is processed fails and registers nothing,
\* whatever the rest of the source holds; a Group block is registered only when
\* every member was registered by an earlier block or an earlier load.
C4_NoForwardReference ==
    [][/\ \A b \in PlotterBlocks :
            PlotterLoadStep(b) => C4_Step(plotterFactory, plotterFactory', b)
       /\ \A b \in DatasetBlocks :
            DatasetLoadStep(b) => C4_Step(datasetFactory, datasetFactory', b)]_vars

\* a PlotterList block has failed on a member that the next block of the same
\* source defines
C4_Witness ==
    /\ pc = "idle"
    /\ IsUnresolvedReferenceError(err)
    /\ ahead # <<>>
    /\ ahead[1].kind = "Plotter"
    /\ "name" \in ahead[1].has
    /\ "class_name" \in ahead[1].has
    /\ ahead[1].name = err.key
    /\ ~DictHas(ItemMap(plotterFactory), err.key)

----------------------------------------------------------------------------
(* C5 *)

\* the Item block would be built and bound were there no Group at all
Buildable(f, b) ==
    IF b.kind = "Plotter"
    THEN MakePlotter([f EXCEPT !.plotter_list_dict = EmptyDict],
                     plotter_classes, b.name, b).err = NoErr
    ELSE /\ "extractor" \in b.has
         /\ MakeDataset([f EXCEPT !.dataset_dicts = EmptyDict],
                        extractor_classes, b.name, b.class_name, b.cfg).err = NoErr

C5_Step(f, f2, b) ==
    /\ (WellFormedGroup(b) /\ DictHas(ItemMap(f), b.name)
           /\ ~DictHas(GroupMap(f), b.name) /\ Missing(ItemMap(f), b) = {})
       => (err' = NoErr /\ DictHas(GroupMap(f2), b.name))
    /\ (IsItemBlock(b) /\ "name" \in b.has /\ DictHas(GroupMap(f), b.name)
           /\ ~DictHas(ItemMap(f), b.name) /\ Buildable(f, b))
       => (err' = NoErr /\ DictHas(ItemMap(f2), b.name))

\* C5: Item names and Group names are independent namespaces in either
\* registry: a Group block named like a registered Item (its members all
\* registered, its name not yet a Group's) is registered, and an Item block
\* named like a registered Group (not yet an Item's) is registered.
C5_IndependentNamespaces ==
    [][/\ \A b \in PlotterBlocks :
            PlotterLoadStep(b) => C5_Step(plotterFactory, plotterFactory', b)
       /\ \A b \in DatasetBlocks :
            DatasetLoadStep(b) => C5_Step(datasetFactory, datasetFactory', b)]_vars

\* the same, of the plotter registry alone
C5_IndependentPlotterNamespaces ==
    [][\A b \in PlotterBlocks :
          PlotterLoadStep(b) => C5_Step(plotterFactory, plotterFactory', b)]_vars

----------------------------------------------------------------------------
(* C6 *)

\* a Dataset block that reaches the project lookup of _make_dataset
ReachesProjectLookup(b) ==
    /\ b.kind = "Dataset"
    /\ {"name", "extractor"} \subseteq b.has
    /\ ~DictHas(ItemMap(datasetFactory), b.name)
    /\ GetExtractor(extractor_classes, b.class_name).err = NoErr
    /\ "project" \in DOMAIN b.cfg

C6_Step(b) ==
    ReachesProjectLookup(b) =>
        IF DictHas(ContextMap(datasetFactory), b.cfg.project)
        THEN /\ err' = NoErr
             /\ DictHas(ItemMap(datasetFactory'), b.name)
             /\ DictGet(ItemMap(datasetFactory'), b.name).project =
                  DictGet(ContextMap(datasetFactory), b.cfg.project)
        ELSE /\ err' # NoErr
             /\ pc' = "idle"
             /\ ItemMap(datasetFactory') = ItemMap(datasetFactory)

\* C6: a Dataset block whose `project` names a project registered by an earlier
\* Project block obtains that project and registers the dataset; when no project
\* of that name is registered the block fails and registers no dataset.
C6_ProjectOfDataset ==
    [][\A b \in DatasetBlocks : DatasetLoadStep(b) => C6_Step(b)]_vars

----------------------------------------------------------------------------
(* C7 *)

C7_Step(f, f2, b) ==
    b.kind = "Other" =>
        /\ IsSchemaError(err')
        /\ err'.msg = "Expecting one of"
        /\ pc' = "idle"
        /\ f2 = f

\* C7: a block whose key is none of the recognized kinds makes the load fail
\* with the schema error that lists the block's keys and the recognized kinds,
\* and leaves the registry as the earlier blocks made it.
C7_UnknownKind ==
    [][/\ \A b \in PlotterBlocks :
            PlotterLoadStep(b) => C7_Step(plotterFactory, plotterFactory', b)
       /\ \A b \in DatasetBlocks :
            DatasetLoadStep(b) => C7_Step(datasetFactory, datasetFactory', b)]_vars

----------------------------------------------------------------------------
(* C8 *)

SelectorKey(b) == IF b.kind = "Plotter" THEN "class_name" ELSE "extractor"

C8_Step(f, f2, b) ==
    (IsItemBlock(b) /\ ("name" \notin b.has \/ SelectorKey(b) \notin b.has))
    => /\ err' # NoErr
       /\ pc' = "idle"
       /\ ItemMap(f2) = ItemMap(f)
       /\ ("name" \notin b.has \/ ~DictHas(ItemMap(f), b.name))
            => /\ IsSchemaError(err')
               /\ err'.key = IF "name" \notin b.has THEN "name" ELSE SelectorKey(b)

----------------------------------------------------------------------------
(* C9 *)

\* the call leaves the three maps of both registries as they were
MapsUnchanged ==
    /\ ItemMap(plotterFactory') = ItemMap(plotterFactory)
    /\ GroupMap(plotterFactory') = GroupMap(plotterFactory)
    /\ ItemMap(datasetFactory') = ItemMap(datasetFactory)
    /\ GroupMap(datasetFactory') = GroupMap(datasetFactory)
    /\ ContextMap(datasetFactory') = ContextMap(datasetFactory)

\* the accessor returned what map binds to name, or raised not-found
Looked(map, name) ==
    /\ IF DictHas(map, name)
       THEN err' = NoErr /\ ret'.value = DictGet(map, name)
       ELSE IsNotFoundError(err') /\ err'.key = name /\ err'.known = DictKeys(map)
            /\ ret' = NoValue
    /\ MapsUnchanged

C9_Getters ==
    /\ \A name \in PlotterNames :
         /\ GetPlotter(name) => Looked(ItemMap(plotterFactory), name)
         /\ GetPlotterList(name) => Looked(GroupMap(plotterFactory), name)
    /\ \A name \in DatasetNames :
         /\ GetDataset(name) => Looked(ItemMap(datasetFactory), name)
         /\ GetDatasetDict(name) => Looked(GroupMap(datasetFactory), name)

C9_ProjectLookup(b) ==
    ReachesProjectLookup(b) =>
        IF DictHas(ContextMap(datasetFactory), b.cfg.project)
        THEN /\ err' = NoErr
             /\ DictGet(ItemMap(datasetFactory'), b.name).project =
                  DictGet(ContextMap(datasetFactory), b.cfg.project)
             /\ ContextMap(datasetFactory') = ContextMap(datasetFactory)
        ELSE /\ IsNotFoundError(err')
             /\ err'.key = b.cfg.project
             /\ MapsUnchanged

\* C9: get_plotter, get_plotter_list, get_dataset, get_dataset_dict and the
\* lookup of a dataset's project return the object registered under the name
\* when there is one and raise the not-found error when there is none, and
\* leave the Item, Group and Context maps as they were.
C9_Lookups ==
    [][/\ C9_Getters
       /\ \A b \in DatasetBlocks : DatasetLoadStep(b) => C9_ProjectLookup(b)]_vars

\* the same, of the four accessors alone
C9_AccessorsOnly == [][C9_Getters]_vars

----------------------------------------------------------------------------
(* C10 *)

C10_State ==
    /\ made.plotter = IF plotterFactory = NoInstance THEN 0 ELSE 1
    /\ made.dataset = IF datasetFactory = NoInstance THEN 0 ELSE 1

C10_Step ==
    \* the first access creates the instance, empty
    /\ (plotterFactory = NoInstance /\ plotterFactory' # NoInstance)
         => (plotterFactory' = NewPlotterFactory
             /\ (PlotterInstance \/ PlotterPrintContents \/ PlotterLoadYaml
                 \/ \E name \in PlotterNames : GetPlotter(name) \/ GetPlotterList(name)))
    /\ (datasetFactory = NoInstance /\ datasetFactory' # NoInstance)
         => (datasetFactory' = NewDatasetFactory
             /\ (DatasetInstance \/ DatasetPrintContents \/ DatasetLoadYaml
                 \/ \E name \in DatasetNames : GetDataset(name) \/ GetDatasetDict(name)))
    /\ (PlotterInstance \/ PlotterPrintContents \/ PlotterLoadYaml)
         => plotterFactory' # NoInstance
    /\ (DatasetInstance \/ DatasetPrintContents \/ DatasetLoadYaml)
         => datasetFactory' # NoInstance
    \* every later access finds that instance, with what it has accumulated
    /\ (plotterFactory # NoInstance
          /\ (PlotterInstance \/ PlotterPrintContents \/ PlotterLoadYaml))
         => plotterFactory' = plotterFactory
    /\ (datasetFactory # NoInstance
          /\ (DatasetInstance \/ DatasetPrintContents \/ DatasetLoadYaml))
         => datasetFactory' = datasetFactory
    /\ PlotterInstance => ret'.value = plotterFactory'
    /\ DatasetInstance => ret'.value = datasetFactory'
    \* the two registries share no state
    /\ plotterFactory' # plotterFactory => datasetFactory' = datasetFactory
    /\ datasetFactory' # datasetFactory => plotterFactory' = plotterFactory
    /\ C10_State'

\* C10: each registry is a lazily created singleton.  No instance exists before
\* the first access; the first of instance(), load_yaml() or print_contents()
\* constructs it, empty, and it is constructed once; every later access finds
\* the same instance with what it has accumulated; the plotter and the dataset
\* registry are two instances and a call on one leaves the other as it was.
C10_LazySingletons ==
    C10_State /\ plotterFactory = NoInstance /\ datasetFactory = NoInstance
    /\ [][C10_Step]_vars

\* instance() has just returned a plotter registry that holds an Item, while
\* the dataset registry exists and holds a project
C10_Witness ==
    /\ ret # NoValue
    /\ ret.call = "PlotterFactory.instance"
    /\ ret.value = plotterFactory
    /\ ItemMap(plotterFactory) # EmptyDict
    /\ ContextMap(datasetFactory) # EmptyDict
    /\ made = [plotter |-> 1, dataset |-> 1]

----------------------------------------------------------------------------
(* C11 *)

IsMissingConfigError(e) ==
    e # NoErr /\ e.type = "ValueError" /\ e.msg = "Missing configuration option"

IsUnrecognizedConfigError(e) ==
    e # NoErr /\ e.type = "ValueError"
    /\ e.msg = "Unrecogonized configruation parameters"

Constructed == pc = "idle" /\ args # NoValue /\ args.call = "RailPlotter"

\* the required options of the class that the caller did not supply
Unsupplied(cls, kwargs) ==
    {OptionsOf(cls)[i].key : i \in {j \in 1..Len(OptionsOf(cls)) :
        OptionsOf(cls)[j].required /\ OptionsOf(cls)[j].key \notin DOMAIN kwargs}}

Declared(cls) == {OptionsOf(cls)[i].key : i \in 1..Len(OptionsOf(cls))}

\* C11: constructing a plotter fails (missing-configuration error naming such a
\* key) when a required option is not supplied; a construction that succeeds
\* left every declared option at the supplied value, or at the declared default
\* when none was supplied, and nothing else in the configuration; a caller that
\* supplies the required options and no undeclared key succeeds.
C11_Configuration ==
    Constructed =>
      LET opts == OptionsOf(args.cls) IN
      /\ Unsupplied(args.cls, args.kwargs) # {}
           => (IsMissingConfigError(err) /\ err.key \in Unsupplied(args.cls, args.kwargs)
               /\ ret = NoValue)
      /\ (Unsupplied(args.cls, args.kwargs) = {}
            /\ DOMAIN args.kwargs \subseteq Declared(args.cls))
           => err = NoErr
      /\ err = NoErr
           => /\ ret.value.name = args.name
              /\ DOMAIN ret.value.config = Declared(args.cls)
              /\ \A i \in 1..Len(opts) :
                   ret.value.config[opts[i].key] =
                     IF opts[i].key \in DOMAIN args.kwargs
                     THEN args.kwargs[opts[i].key]
                     ELSE opts[i].default

\* a plotter built with its one required option alone reports the default of
\* the optional one
C11_Witness ==
    /\ Constructed
    /\ args.cls = Client
    /\ DOMAIN args.kwargs = {"sample"}
    /\ err = NoErr
    /\ ret.value.config = [z_min |-> 0, sample |-> "gold"]

----------------------------------------------------------------------------
(* C12 *)

\* a Plotter block that reaches the constructor of a class
ReachesConstructor(f, b) ==
    /\ b.kind = "Plotter"
    /\ {"name", "class_name"} \subseteq b.has
    /\ ~DictHas(ItemMap(f), b.name)
    /\ LoadPlotterClass(plotter_classes, b.class_name).err = NoErr

Undeclared(b) ==
    DOMAIN b.cfg \ ConfigKeys(LoadPlotterClass(plotter_classes, b.class_name).cls)

C12_Step(b) ==
    ReachesConstructor(plotterFactory, b) =>
      /\ Undeclared(b) # {}
           => /\ IsUnrecognizedConfigError(err')
              /\ Len(err'.known) = Cardinality(Undeclared(b))
              /\ {err'.known[i] : i \in 1..Len(err'.known)} = Undeclared(b)
      /\ err' # NoErr
           => /\ pc' = "idle"
              /\ ~DictHas(ItemMap(plotterFactory'), b.name)
              /\ plotterFactory' = plotterFactory

\* C12: a Plotter block whose configuration has a key outside the schema of its
\* class fails with the unrecognized-configuration error listing exactly those
\* keys; whenever the construction of a block's plotter fails, nothing is
\* registered under the block's name and the registry is as it was.
C12_UnrecognizedConfig ==
    [][\A b \in PlotterBlocks : PlotterLoadStep(b) => C12_Step(b)]_vars

\* a block with two undeclared keys has just failed, after a block of the same
\* load was registered
C12_Witness ==
    /\ pc = "idle"
    /\ IsUnrecognizedConfigError(err)
    /\ Len(err.known) = 2
    /\ Len(log) >= 1
    /\ ~DictHas(ItemMap(plotterFactory), "g")

----------------------------------------------------------------------------
(* C13 *)

IsMissingInputError(e) ==
    e # NoErr /\ e.type = "KeyError" /\ e.msg = "not provided to RailPlotter"

IsInputTypeError(e) ==
    e # NoErr /\ e.type = "TypeError"
    /\ e.msg = "provided to RailPlotter was, expected"

Invoked == pc = "idle" /\ args # NoValue /\ args.call = "__call__"

DeclaredInputs(cls) == {Inputs(cls)[i].key : i \in 1..Len(Inputs(cls))}

\* the value is of the type the class declares for the key
Conforms(cls, key, value) ==
    IF key = "pointEstimates" THEN value = "dict" ELSE value = "ndarray"

\* C13: an invocation that lacks a declared input key of the plotter's class
\* fails with the missing-input error before _make_plots runs, and yields no
\* artifact.
C13_MissingInput ==
    (Invoked /\ ~(DeclaredInputs(args.plotter.cls) \subseteq DOMAIN args.kwargs))
    => /\ IsMissingInputError(err)
       /\ err.key \in DeclaredInputs(args.plotter.cls) \ DOMAIN args.kwargs
       /\ ~ret.ran
       /\ ret.value = EmptyDict

----------------------------------------------------------------------------
(* C14 *)

\* C14: an invocation with every declared input key present and a value that
\* is not of the declared type fails with the input-type error naming that
\* key, before _make_plots runs, and yields no artifact.
C14_InputType ==
    (Invoked /\ DeclaredInputs(args.plotter.cls) \subseteq DOMAIN args.kwargs
       /\ \E key \in DeclaredInputs(args.plotter.cls) :
             ~Conforms(args.plotter.cls, key, args.kwargs[key]))
    => /\ IsInputTypeError(err)
       /\ ~Conforms(args.plotter.cls, err.key, args.kwargs[err.key])
       /\ ~ret.ran
       /\ ret.value = EmptyDict

----------------------------------------------------------------------------
(* C15 *)

Fanned == pc = "idle" /\ args # NoValue /\ args.call = "iterate"

KeySet(d) == {d[i].k : i \in 1..Len(d)}

NoSeparator(word) == \A i \in 1..Len(word) : word[i] # "_"

\* every key an invocation produced is name_prefix_label, label being the
\* artifact label of the plotter's class
C15_Form ==
    \A i \in 1..Len(ret.calls) :
       \A key \in KeySet(ret.calls[i].out) :
          key = ret.calls[i].plotter.name \o <<"_">> \o ret.calls[i].prefix
                  \o <<"_">> \o Label(ret.calls[i].plotter.cls)

\* the invocations i and j differ in the instance name or in the context label
Differ(i, j) ==
    \/ ret.calls[i].plotter.name # ret.calls[j].plotter.name
    \/ ret.calls[i].prefix # ret.calls[j].prefix

Plain(i) == NoSeparator(ret.calls[i].plotter.name) /\ NoSeparator(ret.calls[i].prefix)

\* C15 (as stated): output keys are name_prefix_label, and two invocations that
\* differ in the instance name or in the context label produce different keys.
C15_CollisionFree ==
    Fanned =>
      /\ C15_Form
      /\ \A i, j \in 1..Len(ret.calls) :
           Differ(i, j) => KeySet(ret.calls[i].out) \cap KeySet(ret.calls[j].out) = {}

\* C15 (amended): output keys are name_prefix_label, and two invocations that
\* differ in the instance name or in the context label produce different keys
\* provided none of their instance names and context labels contains "_".
C15_CollisionFreePlain ==
    Fanned =>
      /\ C15_Form
      /\ \A i, j \in 1..Len(ret.calls) :
           (Differ(i, j) /\ Plain(i) /\ Plain(j))
           => KeySet(ret.calls[i].out) \cap KeySet(ret.calls[j].out) = {}

\* two plotters of one class with different plain names were invoked on two
\* contexts with plain labels, and the four keys are different
C15_Witness ==
    /\ Fanned
    /\ err = NoErr
    /\ Len(ret.calls) = 4
    /\ \A i \in 1..4 : Plain(i) /\ ret.calls[i].plotter.cls = Hist2D
    /\ ret.calls[1].plotter.name # ret.calls[2].plotter.name
    /\ Len(ret.value) = 4

----------------------------------------------------------------------------
(* C16 *)

\* the i-th invocation of the fan-out: contexts in mapping order, plotters in
\* list order within a context
PlannedPlotter(i) == args.plotters[((i - 1) % Len(args.plotters)) + 1]

PlannedPrefix(i) == args.data_dict[((i - 1) \div Len(args.plotters)) + 1].k

\* the invocations of the returned call that produced key
Producers(key) == {i \in 1..Len(ret.calls) : key \in KeySet(ret.calls[i].out)}

\* C16: iterate invokes the plotters in list order within each context, the
\* contexts in mapping order; when it returns, every plotter was invoked on
\* every context exactly once, and the mapping returned has every key an
\* invocation produced, bound to the figure of the last invocation that
\* produced it.
C16_Iterate ==
    Fanned =>
      /\ Len(ret.calls) <= Len(args.plotters) * Len(args.data_dict)
      /\ \A i \in 1..Len(ret.calls) :
           /\ ret.calls[i].plotter = PlannedPlotter(i)
           /\ ret.calls[i].prefix = PlannedPrefix(i)
      /\ err = NoErr =>
           /\ Len(ret.calls) = Len(args.plotters) * Len(args.data_dict)
           /\ KeySet(ret.value) = UNION {KeySet(ret.calls[i].out) : i \in 1..Len(ret.calls)}
           /\ \A key \in KeySet(ret.value) :
                LET last == CHOOSE i \in Producers(key) : \A j \in Producers(key) : j <= i
                IN DictGet(ret.value, key) = DictGet(ret.calls[last].out, key)

\* a fan-out of two plotters over two contexts returned, two of its four
\* invocations having produced one key
C16_Witness ==
    /\ Fanned
    /\ err = NoErr
    /\ Len(ret.calls) = 4
    /\ \E key \in KeySet(ret.value) : Cardinality(Producers(key)) = 2
    /\ Len(ret.value) = 3

----------------------------------------------------------------------------
(* C17 *)

\* a top-level file that has its three keys and whose PlotGroups bind lists
\* and dicts its two other files define
WellFormed(yaml) ==
    /\ yaml.has = TopKeys
    /\ \A i \in 1..Len(yaml.group_data) :
         /\ yaml.group_data[i].kind = "PlotGroup"
         /\ GroupKeys \subseteq yaml.group_data[i].has
         /\ yaml.group_data[i].plotter_list_name \in {<<"l">>, <<"m">>}
         /\ yaml.group_data[i].dataset_dict_name \in {<<"s">>, <<"t">>}

Bindings(yaml) == {yaml.group_data[i].name : i \in 1..Len(yaml.group_data)}

\* the script is about to call a group its well-formed file binds
GroupCallDue ==
    /\ pc = "call"
    /\ args.call = "RailPlotGroup"
    /\ WellFormed(args.yaml)
    /\ args.name \in Bindings(args.yaml)

\* the figures the group holds before and after the call
PlotsBefore ==
    IF group = NoValue THEN EmptyDict ELSE DictGet(group.dict, args.name).plots

PlotsAfter == DictGet(group'.dict, args.name).plots

\* plots is held with drawn merged into it, the figure of drawn winning
Merges(held, plots, drawn) ==
    /\ KeySet(held) = KeySet(plots) \cup KeySet(drawn)
    /\ \A key \in KeySet(held) :
         DictGet(held, key) = IF key \in KeySet(drawn) THEN DictGet(drawn, key)
                              ELSE DictGet(plots, key)

\* C17: a call of a RailPlotGroup that binds a registered plotter list to a
\* registered dataset dict returns, and unless it saves and purges, the
\* group then holds the figures it held before and the figures this call
\* made, each key bound to the latest figure.
C17_Merge ==
    [][GroupCallDue =>
         /\ err' = NoErr
         /\ ~(Head(args.todo).save /\ Head(args.todo).purge)
              => Merges(PlotsAfter, PlotsBefore, ret'.drawn)]_vars

----------------------------------------------------------------------------
(* C18 *)

\* C18: a call of a group writes its figures when save is true and only then;
\* it leaves the group empty when save and purge are true, once every figure
\* held is written, and leaves it holding the merged figures otherwise,
\* whatever purge is when save is false.
C18_Purge ==
    [][GroupCallDue =>
         /\ err' = NoErr
         /\ LET save == Head(args.todo).save
                purge == Head(args.todo).purge
            IN /\ save => \E held \in {ret'.written} :
                             /\ {held[i] : i \in 1..Len(held)}
                                  = KeySet(PlotsBefore) \cup KeySet(ret'.drawn)
                             /\ ret'.drawn # EmptyDict
                             /\ PlotsAfter = IF purge THEN EmptyDict ELSE ret'.value
               /\ ~purge => Merges(PlotsAfter, PlotsBefore, ret'.drawn)
               /\ ~save => /\ ret'.written = <<>>
                           /\ Merges(PlotsAfter, PlotsBefore, ret'.drawn)
                           /\ PlotsAfter # EmptyDict]_vars

----------------------------------------------------------------------------
(* C19 *)

\* the names a list argument of run holds
Names(list) == IF list = None THEN {} ELSE {list.list[i] : i \in 1..Len(list.list)}

\* run is about to be called on a well-formed file
RunDue ==
    /\ pc = "call"
    /\ args.call = "run"
    /\ args.nth = 1
    /\ WellFormed(args.yaml)

\* the bindings run is to execute: all of them when include is None or
\* empty, those of include otherwise, less those of exclude
Selected ==
    (IF Names(args.include_groups) = {} THEN Bindings(args.yaml)
     ELSE Names(args.include_groups)) \ Names(args.exclude_groups)

\* C19: run with an include list of bindings and an exclude list holding a
\* name that is not in the include list returns, having executed exactly the
\* included bindings that are not excluded.
C19_ExcludeAbsent ==
    [][(/\ RunDue
        /\ Names(args.include_groups) # {}
        /\ Names(args.include_groups) \subseteq Bindings(args.yaml)
        /\ Names(args.exclude_groups) \ Names(args.include_groups) # {})
       => /\ err' = NoErr
          /\ {ret'.ran[i] : i \in 1..Len(ret'.ran)} = Selected]_vars

----------------------------------------------------------------------------
(* C20 *)

\* C20: run on bindings of the file returns having executed each selected
\* binding once and no other.
C20_Selection ==
    [][(/\ RunDue
        /\ Names(args.include_groups) \subseteq Bindings(args.yaml)
        /\ Names(args.exclude_groups) \subseteq
             (IF Names(args.include_groups) = {} THEN Bindings(args.yaml)
              ELSE Names(args.include_groups)))
       => /\ err' = NoErr
          /\ Len(ret'.ran) = Cardinality(Selected)
          /\ {ret'.ran[i] : i \in 1..Len(ret'.ran)} = Selected]_vars

----------------------------------------------------------------------------
(* C21 *)

\* run is about to be called on a well-formed file with lists of its bindings
SelectionDue ==
    /\ RunDue
    /\ Names(args.include_groups) \subseteq Bindings(args.yaml)
    /\ Names(args.exclude_groups) \subseteq
         (IF Names(args.include_groups) = {} THEN Bindings(args.yaml)
          ELSE Names(args.include_groups))

\* the bindings run executed that returned key
Returners(r, key) == {i \in 1..Len(r.outs) : key \in KeySet(r.outs[i])}

\* C21: run on bindings of the file returns the merge of the mappings its
\* bindings returned, in the order it executed them: every key a binding
\* returned, bound to the figure of the last binding that returned it.
C21_MergedResult ==
    [][SelectionDue =>
         /\ err' = NoErr
         /\ ret'.returned
         /\ Len(ret'.outs) = Len(ret'.ran)
         /\ KeySet(ret'.value) =
              UNION {KeySet(ret'.outs[i]) : i \in 1..Len(ret'.outs)}
         /\ \A key \in KeySet(ret'.value) :
              LET last == CHOOSE i \in Returners(ret', key) :
                              \A j \in Returners(ret', key) : j <= i
              IN DictGet(ret'.value, key) = DictGet(ret'.outs[last], key)]_vars

----------------------------------------------------------------------------
(* C22 *)

\* C22: run called with purge_plots true on bindings of the file returns the
\* empty mapping, whatever save_plots is.
C22_PurgedResult ==
    [][(SelectionDue /\ args.purge_plots) =>
         /\ err' = NoErr
         /\ ret'.returned
         /\ ret'.value = EmptyDict]_vars

----------------------------------------------------------------------------
(* C23 *)

\* the keys whose absence makes RailPlotGroup.load_yaml fail on the file
Malformed(yaml) ==
    (TopKeys \ yaml.has)
    \cup {"PlotGroup" : i \in {i \in 1..Len(yaml.group_data) :
                                  yaml.group_data[i].kind # "PlotGroup"}}
    \cup UNION {GroupKeys \ yaml.group_data[i].has : i \in 1..Len(yaml.group_data)}

\* the bindings of the file that name a plotter list or a dataset dict its
\* other two files do not define, by position
Dangling(yaml) ==
    {i \in 1..Len(yaml.group_data) :
        \/ yaml.group_data[i].plotter_list_name \notin {<<"l">>, <<"m">>}
        \/ yaml.group_data[i].dataset_dict_name \notin {<<"s">>, <<"t">>}}

\* run is about to be called, to execute all the bindings of the file
RunAllDue ==
    /\ pc = "call"
    /\ args.call = "run"
    /\ args.nth = 1
    /\ Names(args.include_groups) = {}
    /\ Names(args.exclude_groups) = {}

\* C23: run on a file load_yaml rejects raises the error of load_yaml and
\* executes no binding; run on a file with a binding that cannot be executed
\* raises the error of that binding, having executed the bindings before it
\* and that one once, and none after it; in both cases run returns no mapping.
C23_Abort ==
    [][RunAllDue =>
         /\ Malformed(args.yaml) # {} =>
              /\ err'.type \in {"KeyError", "TypeError"}
              /\ err'.type = "KeyError" => err'.key \in Malformed(args.yaml)
              /\ ~ret'.returned
              /\ ret'.ran = <<>>
         /\ (Malformed(args.yaml) = {} /\ Dangling(args.yaml) # {}) =>
              LET k == CHOOSE i \in Dangling(args.yaml) :
                           \A j \in Dangling(args.yaml) : i <= j
              IN /\ err'.type = "KeyError"
                 /\ err'.key \in {args.yaml.group_data[k].plotter_list_name,
                                  args.yaml.group_data[k].dataset_dict_name}
                 /\ ~ret'.returned
                 /\ ret'.ran = [i \in 1..k |-> args.yaml.group_data[i].name]]_vars

----------------------------------------------------------------------------
(* C24 *)

\* save_plots is about to be called
SaveDue == pc = "call" /\ args.call = "save_plots"

\* the path of the i-th figure of the mapping
PathOf(i) == OutPath(args.outdir, args.fig_dict[i].k, args.figtype)

\* how many figures precede the first write that fails: none is written into
\* a directory that is missing and cannot be created
Before ==
    IF args.fig_dict # <<>> /\ args.outdir \notin disk.dirs /\ ~disk.creatable
    THEN 0
    ELSE IF args.fails \in 1..Len(args.fig_dict) THEN args.fails - 1
    ELSE Len(args.fig_dict)

\* C24: save_plots succeeds on an output directory that exists already; it
\* writes the figures in mapping order and stops at the first write that
\* fails: the figures before it are written, that one and those after it are
\* not, no file is written twice, and the failure is raised.
C24_SaveBatch ==
    [][SaveDue =>
         /\ ret'.written = [i \in 1..Before |-> PathOf(i)]
         /\ (err' = NoErr) = (Before = Len(args.fig_dict))
         /\ (args.outdir \in disk.dirs /\ args.fails \notin 1..Len(args.fig_dict))
              => err' = NoErr
         /\ KeySet(disk'.files) =
              KeySet(disk.files) \cup {PathOf(i) : i \in 1..Before}
         /\ \A i \in 1..Before :
              DictGet(disk'.files, PathOf(i)) = args.fig_dict[i].v
         /\ \A path \in KeySet(disk.files) \ {PathOf(i) : i \in 1..Before} :
              DictGet(disk'.files, path) = DictGet(disk.files, path)]_vars

\* the second of three figures could not be written: the first is on disk,
\* the third is not
C24_Witness ==
    /\ pc = "idle"
    /\ args # NoValue
    /\ args.call = "save_plots"
    /\ Len(args.fig_dict) = 3
    /\ args.fails = 2
    /\ err # NoErr
    /\ Len(ret.written) = 1
    /\ KeySet(disk.files) = {OutPath(args.outdir, args.fig_dict[1].k, args.figtype)}

----------------------------------------------------------------------------
(* C25 *)

\* the files the directory outdir holds
FilesIn(d, outdir) == {path \in KeySet(d.files) : path.dir = outdir}

\* the group that was called
Due == DictGet(group'.dict, args.name)

\* C25: a call of a group that saves succeeds, and the directory the group
\* is configured with then holds one file per key of the figures written,
\* named by the key and the figure type of the group, and nothing else.
C25_Layout ==
    [][GroupCallDue /\ Head(args.todo).save =>
         /\ err' = NoErr
         /\ ret'.written # <<>>
         /\ FilesIn(disk', Due.outdir)
              = {OutPath(Due.outdir, ret'.written[i], Due.figtype) :
                   i \in 1..Len(ret'.written)}
         /\ Cardinality(FilesIn(disk', Due.outdir)) = Len(ret'.written)]_vars

----------------------------------------------------------------------------
(* C26 *)

IsLookupError(e) == e # NoErr /\ e.type \in {"KeyError", "IndexError", "LookupError"}

IsImportError(e) == e # NoErr /\ e.type \in {"ImportError", "ModuleNotFoundError"}

GetDue == pc = "call" /\ args.call = "get_plotter_class"

LoadDue == pc = "call" /\ args.call = "load_plotter_class"

\* the module and the class a qualified name names
ModuleOf(class_name) == SubSeq(class_name, 1, Len(class_name) - 1)

BareOf(class_name) == class_name[Len(class_name)]

\* get returns what classes binds name to, or fails with a lookup error
Gets(classes, name) ==
    IF DictHas(classes, name)
    THEN err' = NoErr /\ ret'.value = DictGet(classes, name)
    ELSE IsLookupError(err')

\* C26 (as stated): get_plotter_class leaves the class registry as it is and returns the
\* class registered under the name, or fails with a lookup error;
\* load_plotter_class imports the module all segments but the last name, then
\* answers as get_plotter_class of the last segment does: it fails with an
\* import error when the module can not be imported (the registry is then
\* unchanged) and with a lookup error when the name is absent after the import.
C26_ClassRegistry ==
    [][/\ GetDue => /\ plotter_classes' = plotter_classes
                    /\ Gets(plotter_classes, args.name)
       /\ LoadDue =>
            IF Importable(ModuleOf(args.class_name))
            THEN /\ plotter_classes'
                      = RegisterAll(plotter_classes,
                                    ModuleClasses(ModuleOf(args.class_name)))
                 /\ Gets(plotter_classes', BareOf(args.class_name))
            ELSE /\ IsImportError(err')
                 /\ plotter_classes' = plotter_classes]_vars

\* C26 (amended): as above for a name that has a module part; for a name
\* without one load_plotter_class imports the module named by the empty
\* string, which fails with a ValueError, neither an import error nor a
\* lookup error, whether the name is registered or not.
C26_ClassRegistryQualified ==
    [][/\ GetDue => /\ plotter_classes' = plotter_classes
                    /\ Gets(plotter_classes, args.name)
       /\ LoadDue =>
            IF ModuleOf(args.class_name) = <<>>
            THEN /\ err' # NoErr
                 /\ err'.type = "ValueError"
                 /\ plotter_classes' = plotter_classes
            ELSE IF Importable(ModuleOf(args.class_name))
            THEN /\ plotter_classes'
                      = RegisterAll(plotter_classes,
                                    ModuleClasses(ModuleOf(args.class_name)))
                 /\ Gets(plotter_classes', BareOf(args.class_name))
            ELSE /\ IsImportError(err')
                 /\ plotter_classes' = plotter_classes]_vars

\* the module was imported into an empty registry and does not define the
\* class asked for
C26_Witness ==
    /\ pc = "idle"
    /\ args # NoValue
    /\ args.call = "load_plotter_class"
    /\ args.class_name = Append(PzPlotters, "Missing")
    /\ IsLookupError(err)
    /\ DictKeys(plotter_classes) = ModuleClasses(PzPlotters)

----------------------------------------------------------------------------
(* C27 *)

\* the names of the plotters of a list, in order
PlotterNamesOf(list) == [i \in 1..Len(list) |-> list[i].name]

\* what a registry binds: the names of its items, the names of its groups and
\* the names of the members of each group, in order
PlotterShape(f) ==
    [items |-> KeySet(f.plotter_dict), groups |-> KeySet(f.plotter_list_dict),
     members |-> [g \in KeySet(f.plotter_list_dict) |->
                    PlotterNamesOf(DictGet(f.plotter_list_dict, g))]]

DatasetShape(f) ==
    [items |-> KeySet(f.datasets), groups |-> KeySet(f.dataset_dicts),
     members |-> [g \in KeySet(f.dataset_dicts) |->
                    DictKeys(DictGet(f.dataset_dicts, g))]]

\* the blocks of a kind in a source, and the last block that declares a group
OfKind(blocks, kind) == {i \in 1..Len(blocks) : blocks[i].kind = kind}

LastOf(blocks, kind, g) ==
    blocks[CHOOSE i \in OfKind(blocks, kind) :
             /\ blocks[i].name = g
             /\ \A j \in OfKind(blocks, kind) : blocks[j].name = g => j <= i]

\* what a source declares (the members of a keyed group once each)
DeclaredBy(blocks, item, group_, keyed) ==
    LET groups == {blocks[i].name : i \in OfKind(blocks, group_)}
    IN [items |-> {blocks[i].name : i \in OfKind(blocks, item)},
        groups |-> groups,
        members |-> [g \in groups |->
                       IF keyed
                       THEN DictKeys(RegisterAll(EmptyDict,
                                                 LastOf(blocks, group_, g).members))
                       ELSE LastOf(blocks, group_, g).members]]

PlotterLoadDue == pc = "call" /\ args.call = "PlotterFactory.load_yaml"

DatasetLoadDue == pc = "call" /\ args.call = "RailDatasetFactory.load_yaml"

\* C27: a source that loads into a fresh registry gives the registry the item
\* names, the group names and, group by group, the member names in the order
\* the source declares them; the same load into another fresh registry,
\* whatever classes are registered by then, gives the same names.
C27_Deterministic ==
    [][/\ (PlotterLoadDue /\ err' = NoErr) =>
            /\ PlotterShape(plotterFactory')
                 = DeclaredBy(args.blocks, "Plotter", "PlotterList", FALSE)
            /\ \A f \in {NoInstance, NewPlotterFactory}, classes \in ClassMaps :
                 LET twin == LoadPlotterYaml(PlotterEnsure(f), classes, args.blocks)
                 IN /\ twin.err = NoErr
                    /\ PlotterShape(twin.factory) = PlotterShape(plotterFactory')
       /\ (DatasetLoadDue /\ err' = NoErr) =>
            /\ DatasetShape(datasetFactory')
                 = DeclaredBy(args.blocks, "Dataset", "DatasetDict", TRUE)
            /\ \A f \in {NoInstance, NewDatasetFactory} :
                 LET twin == LoadDatasetYaml(DatasetEnsure(f), extractor_classes,
                                            args.blocks)
                 IN /\ twin.err = NoErr
                    /\ DatasetShape(twin.factory) = DatasetShape(datasetFactory')]_vars

\* a source that declares a list of three members, the first again as the
\* third, was loaded
C27_Witness ==
    /\ pc = "idle"
    /\ err = NoErr
    /\ args # NoValue
    /\ args.call = "PlotterFactory.load_yaml"
    /\ DictHas(plotterFactory.plotter_list_dict, <<"m">>)
    /\ PlotterNamesOf(DictGet(plotterFactory.plotter_list_dict, <<"m">>))
         = <<<<"b">>, <<"a">>, <<"b">>>>

----------------------------------------------------------------------------
(* C28 *)

\* the collection a Group block declares, resolved in the Item map: the list
\* of the plotters, or the dict of the datasets keyed by their names
Resolved(items, b) ==
    IF b.kind = "PlotterList"
    THEN [i \in 1..Len(b.members) |-> DictGet(items, b.members[i])]
    ELSE LET keys == DictKeys(RegisterAll(EmptyDict, b.members))
         IN [i \in 1..Len(keys) |-> [k |-> keys[i], v |-> DictGet(items, keys[i])]]

\* every member of every group of the registry is what the Item map binds
\* to the name of the member
ByReference(f) ==
    \A g \in KeySet(GroupMap(f)) :
       LET held == DictGet(GroupMap(f), g)
       IN \A i \in 1..Len(held) :
            IF "plotter_dict" \in DOMAIN f
            THEN /\ DictHas(ItemMap(f), held[i].name)
                 /\ held[i] = DictGet(ItemMap(f), held[i].name)
            ELSE /\ DictHas(ItemMap(f), held[i].k)
                 /\ held[i].v = DictGet(ItemMap(f), held[i].k)

C28_Step(f, f2, b) ==
    (WellFormedGroup(b) /\ err' = NoErr)
    => /\ DictHas(GroupMap(f2), b.name)
       /\ DictGet(GroupMap(f2), b.name) = Resolved(ItemMap(f), b)

\* C28: a Group block that loads binds its name, at once, to the collection
\* of the objects the Item map binds to the member names, in declared order;
\* whatever was loaded, every member of every registered group is the object
\* the Item map binds to its name; and get_plotter_list and get_dataset_dict
\* return the collection the Group map holds.
C28_EagerByReference ==
    [][/\ pc = "plotter_load" =>
            \A b \in {b \in PlotterBlocks : WellFormedGroup(b)} :
               PlotterLoadStep(b) => C28_Step(plotterFactory, plotterFactory', b)
       /\ pc = "dataset_load" =>
            \A b \in {b \in DatasetBlocks : WellFormedGroup(b)} :
               DatasetLoadStep(b) => C28_Step(datasetFactory, datasetFactory', b)
       /\ ByReference(plotterFactory')
       /\ ByReference(datasetFactory')
       /\ (pc = "idle" /\ err' = NoErr /\ ret' # NoValue) =>
            /\ \A name \in PlotterNames :
                 GetPlotterList(name)
                 => ret'.value = DictGet(GroupMap(plotterFactory'), name)
            /\ \A name \in DatasetNames :
                 GetDatasetDict(name)
                 => ret'.value = DictGet(GroupMap(datasetFactory'), name)]_vars

\* get_plotter_list("g") has returned one plotter, the plotter "a" with the
\* n_zbins of its block
C28_Witness ==
    /\ pc = "idle"
    /\ err = NoErr
    /\ ret # NoValue
    /\ ret.call = "get_plotter_list"
    /\ Len(ret.value) = 1
    /\ ret.value[1].name = "a"
    /\ ret.value[1].config.n_zbins = 60
    /\ ret.value[1] = DictGet(plotterFactory.plotter_dict, "a")

----------------------------------------------------------------------------
(* C29 *)

\* every name the map binds is bound to the same object afterwards
Kept(before, after) ==
    \A name \in KeySet(before) :
       DictHas(after, name) /\ DictGet(after, name) = DictGet(before, name)

\* C29: no step of the program, successful or failed, removes or rebinds a
\* name of the Item map, of the Group map or of the Context (project) map of
\* either registry.
C29_Permanent ==
    [][/\ Kept(ItemMap(plotterFactory), ItemMap(plotterFactory'))
       /\ Kept(GroupMap(plotterFactory), GroupMap(plotterFactory'))
       /\ Kept(ItemMap(datasetFactory), ItemMap(datasetFactory'))
       /\ Kept(GroupMap(datasetFactory), GroupMap(datasetFactory'))
       /\ Kept(ContextMap(datasetFactory), ContextMap(datasetFactory'))]_vars

\* the same, of the two Item maps and of the map of the plotter lists
C29_PermanentItems ==
    [][/\ Kept(ItemMap(plotterFactory), ItemMap(plotterFactory'))
       /\ Kept(GroupMap(plotterFactory), GroupMap(plotterFactory'))
       /\ Kept(ItemMap(datasetFactory), ItemMap(datasetFactory'))]_vars

----------------------------------------------------------------------------
(* C30 *)

C30_Step(f, f2, b) ==
    (WellFormedGroup(b) /\ DictHas(GroupMap(f), b.name))
    => /\ IsDuplicateNameError(err')
       /\ err'.key = b.name
       /\ pc' = "idle"
       /\ GroupMap(f2) = GroupMap(f)

\* C30: a Group block (PlotterList or DatasetDict) that carries its name and
\* its members and whose name is already in the Group map of its registry
\* fails with the duplicate-name error naming it, and the Group map is left
\* as it was.
C30_DuplicateGroupRejected ==
    [][/\ pc = "plotter_load" =>
            \A b \in PlotterBlocks :
               PlotterLoadStep(b) => C30_Step(plotterFactory, plotterFactory', b)
       /\ pc = "dataset_load" =>
            \A b \in DatasetBlocks :
               DatasetLoadStep(b) => C30_Step(datasetFactory, datasetFactory', b)]_vars

\* the same, of the plotter registry alone
C30_DuplicatePlotterList ==
    [][pc = "plotter_load" =>
         \A b \in PlotterBlocks :
            PlotterLoadStep(b) => C30_Step(plotterFactory, plotterFactory', b)]_vars

----------------------------------------------------------------------------
(* C31 *)

\* the script is about to load a top-level file for the first time, by run
\* or by RailPlotGroup.load_yaml
TopLoadDue ==
    /\ pc = "call"
    /\ args.call \in {"run", "RailPlotGroup"}
    /\ group = NoValue
    /\ plotterFactory = NoInstance
    /\ datasetFactory = NoInstance

\* the load failed for want of the key
Lacks(key) == err' # NoErr /\ err'.type = "KeyError" /\ err'.key = key

\* C31: the load of a top-level file without the PlotterYaml key fails for
\* want of it with neither registry touched; the load of a file with that key
\* and without DatasetYaml or PlotGroups fails for want of the first of the
\* two that is missing, with the plotter registry holding what the file of
\* PlotterYaml declares and the dataset registry untouched.
C31_LoadOrder ==
    [][TopLoadDue =>
         /\ "PlotterYaml" \notin args.yaml.has =>
              /\ Lacks("PlotterYaml")
              /\ plotterFactory' = plotterFactory
              /\ datasetFactory' = datasetFactory
         /\ ("PlotterYaml" \in args.yaml.has
                /\ ~({"DatasetYaml", "PlotGroups"} \subseteq args.yaml.has)) =>
              /\ Lacks(IF "DatasetYaml" \notin args.yaml.has
                       THEN "DatasetYaml" ELSE "PlotGroups")
              /\ plotterFactory' # NoInstance
              /\ PlotterShape(plotterFactory')
                   = DeclaredBy(args.yaml.plotter_yaml, "Plotter", "PlotterList",
                                FALSE)
              /\ datasetFactory' = datasetFactory]_vars

----------------------------------------------------------------------------
(* C32 *)

\* the script is about to call run a second time on a well-formed file
RunAgainDue ==
    /\ pc = "call"
    /\ args.call = "run"
    /\ args.nth = 2
    /\ WellFormed(args.yaml)

\* the first Item block of the plotter file
FirstItem(yaml) ==
    yaml.plotter_yaml[CHOOSE i \in OfKind(yaml.plotter_yaml, "Plotter") :
                        \A j \in OfKind(yaml.plotter_yaml, "Plotter") : i <= j]

\* C32: a second call of run on the same well-formed file fails with the
\* duplicate-name error of the first Plotter block of the file, which the
\* first call registered; it executes no binding, returns no mapping and
\* leaves both registries and the files as they were.
C32_NotRepeatable ==
    [][RunAgainDue =>
         /\ IsDuplicateNameError(err')
         /\ err'.msg = "Plotter is already defined"
         /\ err'.key = FirstItem(args.yaml).name
         /\ DictHas(ItemMap(plotterFactory), FirstItem(args.yaml).name)
         /\ ret'.ran = <<>>
         /\ ~ret'.returned
         /\ plotterFactory' = plotterFactory
         /\ datasetFactory' = datasetFactory
         /\ disk' = disk]_vars

====
